---- MODULE Spec2Model ----
(***************************************************************************)
(* Model of the jreader dictionary subsystem: the dictionary registry      *)
(* (YomitanDictionaries), lookup across Term / Pitch / Frequency           *)
(* dictionaries, and the archive scan that ingests and registers           *)
(* dictionaries while lookups run.                                         *)
(*                                                                         *)
(* Strings that the code inspects character by character (terms and        *)
(* readings) are sequences of Unicode code points; titles and revisions    *)
(* are sequences of one-character strings.                                 *)
(***************************************************************************)
EXTENDS Integers, Sequences, FiniteSets, TLC

VARIABLES
  db,         \* DICTS_PATH/db: directory name -> directory contents
  registry,   \* YomitanDictionaries: the four buckets
  request,    \* the lookup request being served (sequential specification)
  outcome,    \* its outcome
  scan,       \* scan requests: position in scan_fs and its counters
  look,       \* lookup requests running beside the scans
  lock,       \* the RwLock around the registry
  yomitan,    \* DICTS_PATH/yomitan: the archives and their file names
  call,       \* the last register_dictionary call and what it returned
  ingest,     \* one insert_all of grouped shard entries into a store
  progress,   \* the rows of the ProgressStateTable
  proc,       \* the callers of the ProgressStateTable and where they are
  unit        \* a function under examination: its input and what it returned

seqvars == <<request, outcome>>
scanvars == <<scan, look, lock, yomitan>>
unitvars == <<call, ingest>>
auxvars == <<progress, proc, unit>>
vars == <<db, registry, request, outcome, scan, look, lock, yomitan, call, ingest,
          progress, proc, unit>>

(***************************************************************************)
(* Bounds                                                                  *)
(***************************************************************************)
MaxDicts == 3     \* at most this many dictionaries are registered
MaxTokens == 2    \* at most this many token features per lookup
MaxShards == 2    \* at most this many shard files of one schema in an archive
MaxEntries == 2   \* at most this many entries in a shard file
BATCH_SIZE == 2   \* rows per insert_batch (1000 in db.rs, scaled to the inputs)

(***************************************************************************)
(* Option and Result values                                                *)
(***************************************************************************)
None == <<>>
Some(x) == <<x>>
IsSome(o) == Len(o) > 0
Unwrap(o) == o[1]

Ok(v) == [tag |-> "Ok", val |-> v]
Err == [tag |-> "Err", val |-> <<>>]
Panic == [tag |-> "Panic", val |-> <<>>]

(***************************************************************************)
(* Kana (wana_kana, called from dictionaries.rs and conversions.rs)        *)
(***************************************************************************)
\* 打, だ, あ, す, ダ, ー, ス as code points
W_da_kanji == <<25171>>                    \* "打"
W_da == <<12384>>                          \* "だ"
W_daasu_kata == <<12480, 12540, 12473>>    \* "ダース"
W_daasu == <<12384, 12354, 12377>>         \* "だあす"
W_mixed_kata == <<25171, 12480>>           \* "打ダ"
W_mixed == <<25171, 12384>>                \* "打だ"

Words == {W_da_kanji, W_da, W_daasu_kata, W_daasu, W_mixed_kata, W_mixed}

\* is_char_katakana: KATAKANA_START (U+30A1) ..= KATAKANA_END (U+30FC)
is_char_katakana(c) == c \in 12449..12540

\* is_char_hiragana: U+3041 ..= U+3096, or the prolonged sound mark
is_char_hiragana(c) == c \in 12353..12438 \/ c = 12540

is_char_long_dash(c) == c = 12540

\* IsJapaneseStr::is_katakana: non-empty and every char is katakana
is_katakana(s) == Len(s) > 0 /\ \A i \in 1..Len(s) : is_char_katakana(s[i])

\* IsJapaneseStr::is_hiragana: non-empty and every char is hiragana
is_hiragana(s) == Len(s) > 0 /\ \A i \in 1..Len(s) : is_char_hiragana(s[i])

\* the hiragana that a prolonged sound mark becomes after the hiragana h:
\* the vowel of h's romaji, through LONG_VOWELS (a->あ i->い u->う e->え o->う)
LongVowelAfter(h) ==
  CASE h \in {12384, 12354} -> 12354      \* だ, あ : a -> あ
    [] h \in {12377} -> 12358             \* す : u -> う
    [] OTHER -> 12358

\* katakana_to_hiragana: code shift by U+30A1 - U+3041, a prolonged sound
\* mark after a converted kana becomes that kana's long vowel, other
\* characters pass through
RECURSIVE katakana_to_hiragana(_, _, _, _)
katakana_to_hiragana(s, i, prev, acc) ==
  IF i > Len(s) THEN acc
  ELSE LET c == s[i] IN
    IF c = 12539 \/ (is_char_long_dash(c) /\ i = 1) \/ c \in {12534, 12533}
      THEN katakana_to_hiragana(s, i + 1, prev, Append(acc, c))
    ELSE IF IsSome(prev) /\ is_char_long_dash(c) /\ i > 1
      THEN katakana_to_hiragana(s, i + 1, prev,
                                Append(acc, LongVowelAfter(Unwrap(prev))))
    ELSE IF ~is_char_long_dash(c) /\ is_char_katakana(c)
      THEN katakana_to_hiragana(s, i + 1, Some(c - 96), Append(acc, c - 96))
    ELSE katakana_to_hiragana(s, i + 1, None, Append(acc, c))

\* ConvertJapanese::to_hiragana on text without romaji
to_hiragana(s) == katakana_to_hiragana(s, 1, None, <<>>)

(***************************************************************************)
(* KV store (kv_store/db.rs) and the db/ directory tree                    *)
(***************************************************************************)
Schemas == {"term_bank", "tag_bank", "term_meta_bank", "kanji_bank", "kanji_meta_bank"}

\* one row of term_entry: key, stored JSON text, and whether reading the
\* row succeeds
Row(k, entries) ==
  [key |-> k, json |-> [valid |-> TRUE, entries |-> entries], io_ok |-> TRUE]
MalformedRow(k) ==
  [key |-> k, json |-> [valid |-> FALSE, entries |-> <<>>], io_ok |-> TRUE]
UnreadableRow(k) ==
  [key |-> k, json |-> [valid |-> TRUE, entries |-> <<>>], io_ok |-> FALSE]

\* a <prefix>dict.db file: committed rows, and the rows of an insert_all
\* transaction that has not committed yet
Store(rows) == [rows |-> rows, writing |-> FALSE, pending |-> <<>>]

NoStores == [s \in Schemas |-> None]

\* the connection of an opened dictionary to one of its stores
Bank(dict, schema) ==
  IF schema \in dict.banks /\ IsSome(db[dict.origin])
     /\ IsSome(Unwrap(db[dict.origin]).stores[schema])
    THEN Some(Unwrap(Unwrap(db[dict.origin]).stores[schema]))
    ELSE None

\* DictionaryDB::get: the first row with that key
get(store, key) ==
  LET hits == {i \in 1..Len(store.rows) : store.rows[i].key = key} IN
  IF hits = {} THEN Ok(None)
  ELSE LET first == CHOOSE i \in hits : \A j \in hits : i <= j IN
    IF store.rows[first].io_ok THEN Ok(Some(store.rows[first].json)) ELSE Err

\* DictionaryDB::get_first_row
get_first_row(store) ==
  IF Len(store.rows) = 0 THEN Ok(None)
  ELSE IF store.rows[1].io_ok THEN Ok(Some(store.rows[1].json)) ELSE Err

\* DictionaryDB::get_num_rows
get_num_rows(store) == Len(store.rows)

\* DictionaryDB::open_ro for every schema: the stores whose file exists
open_ro(dir) == {s \in Schemas : IsSome(dir.stores[s])}

(***************************************************************************)
(* Dictionaries and the registry (dictionaries.rs)                         *)
(***************************************************************************)
Kanji5 == <<"k", "a", "n", "j", "i">>

\* str::contains("kanji") on a revision
contains_kanji(rev) ==
  \E i \in 1..Len(rev) : i + 4 <= Len(rev) /\ SubSeq(rev, i, i + 4) = Kanji5

\* format!("{title}#{revision}")
DictIdentity(title, revision) == title \o <<"#">> \o revision

\* YomitanDictionary::new
YomitanDictionary_new(name) ==
  IF ~IsSome(db[name]) THEN Err
  ELSE LET dir == Unwrap(db[name]) IN
    IF ~IsSome(dir.index) \/ ~Unwrap(dir.index).valid THEN Err
    ELSE Ok([origin |-> name,
             title |-> Unwrap(dir.index).title,
             revision |-> Unwrap(dir.index).revision,
             banks |-> open_ro(dir)])

\* identify_dictionary_type with a table that exists counted as populated,
\* whether it holds rows or not
identify_dictionary_type_empty_counts(dict) ==
  LET kanji_bank == Bank(dict, "kanji_bank")
      term_meta_bank == Bank(dict, "term_meta_bank")
      term_bank == Bank(dict, "term_bank")
      rows(b) == IF IsSome(b) THEN get_num_rows(Unwrap(b)) ELSE -1
  IN
  IF rows(kanji_bank) >= 0 \/ contains_kanji(dict.revision) THEN Ok("Kanji")
  ELSE IF rows(term_meta_bank) > 0 THEN
    LET first_row == get_first_row(Unwrap(term_meta_bank)) IN
    IF first_row.tag # "Ok" THEN Err
    ELSE IF ~IsSome(first_row.val) THEN Err
    ELSE IF ~Unwrap(first_row.val).valid THEN Err
    ELSE IF Len(Unwrap(first_row.val).entries) = 0 THEN Panic
    ELSE LET first_entry == Unwrap(first_row.val).entries[1] IN
      IF first_entry.kind = "freq" THEN Ok("Frequency")
      ELSE IF first_entry.kind = "pitch" THEN Ok("Pitch")
      ELSE Err
  ELSE IF rows(term_bank) >= 0 THEN Ok("Term")
  ELSE Err

\* identify_dictionary_type with the term table looked at before the
\* term-meta table
identify_dictionary_type_term_first(dict) ==
  LET kanji_bank == Bank(dict, "kanji_bank")
      term_meta_bank == Bank(dict, "term_meta_bank")
      term_bank == Bank(dict, "term_bank")
      rows(b) == IF IsSome(b) THEN get_num_rows(Unwrap(b)) ELSE -1
  IN
  IF rows(kanji_bank) > 0 \/ contains_kanji(dict.revision) THEN Ok("Kanji")
  ELSE IF rows(term_bank) > 0 THEN Ok("Term")
  ELSE IF rows(term_meta_bank) > 0 THEN
    LET first_row == get_first_row(Unwrap(term_meta_bank)) IN
    IF first_row.tag # "Ok" THEN Err
    ELSE IF ~IsSome(first_row.val) THEN Err
    ELSE IF ~Unwrap(first_row.val).valid THEN Err
    ELSE IF Len(Unwrap(first_row.val).entries) = 0 THEN Panic
    ELSE LET first_entry == Unwrap(first_row.val).entries[1] IN
      IF first_entry.kind = "freq" THEN Ok("Frequency")
      ELSE IF first_entry.kind = "pitch" THEN Ok("Pitch")
      ELSE Err
  ELSE Err

\* YomitanDictionary::identify_dictionary_type
identify_dictionary_type(dict) ==
  LET kanji_bank == Bank(dict, "kanji_bank")
      term_meta_bank == Bank(dict, "term_meta_bank")
      term_bank == Bank(dict, "term_bank")
      rows(b) == IF IsSome(b) THEN get_num_rows(Unwrap(b)) ELSE -1
  IN
  IF rows(kanji_bank) > 0 \/ contains_kanji(dict.revision) THEN Ok("Kanji")
  ELSE IF rows(term_meta_bank) > 0 THEN
    LET first_row == get_first_row(Unwrap(term_meta_bank)) IN
    IF first_row.tag # "Ok" THEN Err
    ELSE IF ~IsSome(first_row.val) THEN Err
    ELSE IF ~Unwrap(first_row.val).valid THEN Err
    ELSE IF Len(Unwrap(first_row.val).entries) = 0 THEN Panic
    ELSE LET first_entry == Unwrap(first_row.val).entries[1] IN
      IF first_entry.kind = "freq" THEN Ok("Frequency")
      ELSE IF first_entry.kind = "pitch" THEN Ok("Pitch")
      ELSE Err
  ELSE IF rows(term_bank) > 0 THEN Ok("Term")
  ELSE Err

EmptyRegistry == [terms |-> <<>>, pitch |-> <<>>, freq |-> <<>>, kanji |-> <<>>]

Buckets == {"terms", "pitch", "freq", "kanji"}

BucketOf(dict_type) ==
  CASE dict_type = "Term" -> "terms"
    [] dict_type = "Pitch" -> "pitch"
    [] dict_type = "Frequency" -> "freq"
    [] dict_type = "Kanji" -> "kanji"

\* a duplicate check that looks at all four buckets
already_exists_any_bucket(reg, dict) ==
  \E b \in {"terms", "pitch", "freq", "kanji"} : \E i \in 1..Len(reg[b]) :
    reg[b][i].title = dict.title /\ reg[b][i].revision = dict.revision

\* the duplicate check of register_dictionary
already_exists(reg, dict) ==
  \E i \in 1..Len(reg.terms) :
    reg.terms[i].title = dict.title /\ reg.terms[i].revision = dict.revision

\* YomitanDictionaries::register_dictionary: the result and the registry
\* it leaves
register_dictionary(reg, name) ==
  LET opened == YomitanDictionary_new(name) IN
  IF opened.tag # "Ok" THEN [res |-> opened.tag, reg |-> reg]
  ELSE LET dict == opened.val
           dict_type == identify_dictionary_type(dict) IN
    IF dict_type.tag # "Ok" THEN [res |-> dict_type.tag, reg |-> reg]
    ELSE IF already_exists(reg, dict) THEN [res |-> "Err", reg |-> reg]
    ELSE [res |-> "Ok",
          reg |-> [reg EXCEPT ![BucketOf(dict_type.val)] = Append(@, dict)]]

\* YomitanDictionaries::clear
clear(reg) == EmptyRegistry

\* YomitanDictionaries::get_dictionaries_info
get_dictionaries_info(reg) ==
  LET info(b, t) == [i \in 1..Len(reg[b]) |->
        [title |-> reg[b][i].title, revision |-> reg[b][i].revision,
         dictionary_type |-> t]]
  IN info("terms", "Term") \o info("pitch", "Pitch")
     \o info("freq", "Frequency") \o info("kanji", "Kanji")

(***************************************************************************)
(* Lookup (dictionaries.rs)                                                *)
(***************************************************************************)
TokenFeature(surface, dict_form) ==
  [surface_form |-> surface, dictionary_form |-> dict_form]

\* serde_json::from_str of a stored payload
from_str(json) == IF json.valid THEN Ok(json.entries) ELSE Err

\* YomitanTermDictionary::lookup_term
term_lookup_term(dict, term) ==
  LET bank == Bank(dict, "term_bank") IN
  IF ~IsSome(bank) THEN Panic
  ELSE LET res == get(Unwrap(bank), term) IN
    IF res.tag # "Ok" THEN Err
    ELSE IF ~IsSome(res.val) THEN Ok(None)
    ELSE LET entries == from_str(Unwrap(res.val)) IN
      IF entries.tag # "Ok" THEN Err ELSE Ok(Some(entries.val))

\* lookup_surface_form with the hiragana fallback made after a direct hit too
lookup_surface_form_both(dict, feature, results) ==
  IF ~IsSome(feature.surface_form) THEN Ok(results)
  ELSE LET surface == Unwrap(feature.surface_form)
           direct == term_lookup_term(dict, surface)
           fallback == term_lookup_term(dict, to_hiragana(surface))
           found(r) == IF IsSome(r.val) THEN Unwrap(r.val) ELSE <<>> IN
    IF direct.tag # "Ok" THEN direct
    ELSE IF ~is_katakana(surface) THEN Ok(results \o found(direct))
    ELSE IF fallback.tag # "Ok" THEN fallback
    ELSE Ok(results \o found(direct) \o found(fallback))

\* lookup_surface_form with the fallback made for any surface form that
\* misses, katakana or not
lookup_surface_form_any(dict, feature, results) ==
  IF ~IsSome(feature.surface_form) THEN Ok(results)
  ELSE LET surface == Unwrap(feature.surface_form)
           direct == term_lookup_term(dict, surface) IN
    IF direct.tag # "Ok" THEN direct
    ELSE IF IsSome(direct.val) THEN Ok(results \o Unwrap(direct.val))
    ELSE LET fallback == term_lookup_term(dict, to_hiragana(surface)) IN
      IF fallback.tag # "Ok" THEN fallback
      ELSE IF IsSome(fallback.val) THEN Ok(results \o Unwrap(fallback.val))
      ELSE Ok(results)

\* YomitanTermDictionary::lookup, "Try surface form first": the entries
\* after the surface-form search of one token feature
lookup_surface_form(dict, feature, results) ==
  IF ~IsSome(feature.surface_form) THEN Ok(results)
  ELSE LET surface == Unwrap(feature.surface_form)
           direct == term_lookup_term(dict, surface) IN
    IF direct.tag # "Ok" THEN direct
    ELSE IF IsSome(direct.val) THEN Ok(results \o Unwrap(direct.val))
    ELSE IF is_katakana(surface) THEN
      LET fallback == term_lookup_term(dict, to_hiragana(surface)) IN
      IF fallback.tag # "Ok" THEN fallback
      ELSE IF IsSome(fallback.val) THEN Ok(results \o Unwrap(fallback.val))
      ELSE Ok(results)
    ELSE Ok(results)

\* lookup_dictionary_form without the comparison with the surface form
lookup_dictionary_form_always(dict, feature, results) ==
  IF ~IsSome(feature.dictionary_form) THEN Ok(results)
  ELSE LET found == term_lookup_term(dict, Unwrap(feature.dictionary_form)) IN
    IF found.tag # "Ok" THEN found
    ELSE IF IsSome(found.val) THEN Ok(results \o Unwrap(found.val))
    ELSE Ok(results)

\* YomitanTermDictionary::lookup, "Try dictionary form if different"
lookup_dictionary_form(dict, feature, results) ==
  IF ~IsSome(feature.dictionary_form) THEN Ok(results)
  ELSE IF feature.dictionary_form = feature.surface_form THEN Ok(results)
  ELSE LET found == term_lookup_term(dict, Unwrap(feature.dictionary_form)) IN
    IF found.tag # "Ok" THEN found
    ELSE IF IsSome(found.val) THEN Ok(results \o Unwrap(found.val))
    ELSE Ok(results)

\* YomitanTermDictionary::lookup: the loop over the token features
RECURSIVE term_lookup_from(_, _, _, _)
term_lookup_from(dict, token_features, i, results) ==
  IF i > Len(token_features)
    THEN Ok([title |-> dict.title, revision |-> dict.revision,
             origin |-> dict.origin, entries |-> results])
  ELSE LET s == lookup_surface_form(dict, token_features[i], results) IN
    IF s.tag # "Ok" THEN s
    ELSE LET d == lookup_dictionary_form(dict, token_features[i], s.val) IN
      IF d.tag # "Ok" THEN d
      ELSE term_lookup_from(dict, token_features, i + 1, d.val)

term_lookup(dict, token_features) ==
  term_lookup_from(dict, token_features, 1, <<>>)

\* YomitanPitchDictionary::lookup: the first pitch entry of that term and
\* reading
pitch_lookup(dict, term, reading) ==
  LET bank == Bank(dict, "term_meta_bank") IN
  IF ~IsSome(bank) THEN Panic
  ELSE LET res == get(Unwrap(bank), term) IN
    IF res.tag # "Ok" THEN Err
    ELSE IF ~IsSome(res.val) THEN Ok(None)
    ELSE LET entries == from_str(Unwrap(res.val)) IN
      IF entries.tag # "Ok" THEN Err
      ELSE LET hits == {i \in 1..Len(entries.val) :
                          /\ entries.val[i].term = term
                          /\ entries.val[i].kind = "pitch"
                          /\ entries.val[i].reading = Some(reading)} IN
        IF hits = {} THEN Ok(None)
        ELSE Ok(Some(entries.val[CHOOSE i \in hits : \A j \in hits : i <= j]))

\* the characters that mora_count leaves out: ょ, ゃ, ゅ
SmallKana == {12423, 12419, 12421}

\* impl From<&PitchData> for PitchAccents
PitchAccents_from(pitch_data) ==
  LET reading == Unwrap(pitch_data.reading) IN
  [i \in 1..Len(pitch_data.pitches) |->
    [reading |-> reading,
     position |-> pitch_data.pitches[i] % 256,
     mora_count |->
       Cardinality({k \in 1..Len(reading) : reading[k] \notin SmallKana}) % 256]]

\* YomitanFrequencyDictionary::lookup_term
freq_lookup_term(dict, term) ==
  LET bank == Bank(dict, "term_meta_bank") IN
  IF ~IsSome(bank) THEN Panic
  ELSE LET res == get(Unwrap(bank), term) IN
    IF res.tag # "Ok" THEN Err
    ELSE IF ~IsSome(res.val) THEN Ok(None)
    ELSE LET entries == from_str(Unwrap(res.val)) IN
      IF entries.tag # "Ok" THEN Err ELSE Ok(Some(entries.val))

\* dictionary_forms with the surface forms added
dictionary_forms_and_surface_forms(token_features) ==
  {Unwrap(token_features[i].dictionary_form) :
     i \in {j \in 1..Len(token_features) :
              IsSome(token_features[j].dictionary_form)}}
  \cup {Unwrap(token_features[i].surface_form) :
          i \in {j \in 1..Len(token_features) :
                   IsSome(token_features[j].surface_form)}}

\* the HashSet of dictionary forms of lookup_terms
dictionary_forms(token_features) ==
  {Unwrap(token_features[i].dictionary_form) :
     i \in {j \in 1..Len(token_features) :
              IsSome(token_features[j].dictionary_form)}}

\* YomitanFrequencyDictionary::lookup_terms, the forms visited in the
\* order the HashSet yields them
RECURSIVE freq_lookup_from(_, _, _, _)
freq_lookup_from(dict, forms, i, results) ==
  IF i > Len(forms) THEN Ok(results)
  ELSE LET found == freq_lookup_term(dict, forms[i]) IN
    IF found.tag # "Ok" THEN found
    ELSE IF IsSome(found.val)
      THEN freq_lookup_from(dict, forms, i + 1, results \o Unwrap(found.val))
    ELSE freq_lookup_from(dict, forms, i + 1, results)

freq_lookup_terms(dict, forms) == freq_lookup_from(dict, forms, 1, <<>>)

\* TermMetaEntry::maybe_frequency and the FrequencyData built from it
RECURSIVE to_frequency_data(_)
to_frequency_data(entries) ==
  IF Len(entries) = 0 THEN <<>>
  ELSE LET e == Head(entries) IN
    (IF e.kind = "freq"
       THEN <<[term |-> e.term, reading |-> e.reading, value |-> e.value]>>
       ELSE <<>>)
    \o to_frequency_data(Tail(entries))

\* enabled_terms without the disabled-dictionaries filter
enabled_terms_unfiltered(reg, prefs) == 1..Len(reg.terms)

\* the Term dictionaries a lookup spawns a task for: those not disabled
enabled_terms(reg, prefs) ==
  {i \in 1..Len(reg.terms) :
     DictIdentity(reg.terms[i].title, reg.terms[i].revision)
       \notin prefs.term_disabled_dictionaries}

\* YomitanDictionaries::lookup, "Collect results": the tasks joined in
\* completion order; failed tasks and empty results are skipped
RECURSIVE collect_results(_, _, _, _)
collect_results(reg, token_features, order, i) ==
  IF i > Len(order) THEN <<>>
  ELSE LET result == term_lookup(reg.terms[order[i]], token_features) IN
    (IF result.tag = "Ok" /\ Len(result.val.entries) > 0
       THEN <<result.val>> ELSE <<>>)
    \o collect_results(reg, token_features, order, i + 1)

\* term_readings with every reading also taken in its hiragana form
term_readings_normalized(dict_results) ==
  UNION {{<<dict_results[d].entries[e].text, dict_results[d].entries[e].reading>> :
            e \in 1..Len(dict_results[d].entries)}
         \cup {<<dict_results[d].entries[e].text,
                  to_hiragana(dict_results[d].entries[e].reading)>> :
                  e \in 1..Len(dict_results[d].entries)} : d \in 1..Len(dict_results)}

\* the (text, reading) combinations found
term_readings(dict_results) ==
  UNION {{<<dict_results[d].entries[e].text, dict_results[d].entries[e].reading>> :
            e \in 1..Len(dict_results[d].entries)} : d \in 1..Len(dict_results)}

\* YomitanDictionaries::lookup, the pitch join over the first Pitch
\* dictionary
pitch_join(reg, pairs) ==
  IF pairs = {} THEN Ok(<<>>)
  ELSE IF Len(reg.pitch) = 0 THEN Panic
  ELSE LET found(p) == pitch_lookup(reg.pitch[1], p[1], p[2]) IN
    IF \E p \in pairs : found(p).tag = "Panic" THEN Panic
    ELSE IF \E p \in pairs : found(p).tag = "Err" THEN Err
    ELSE Ok([p \in {q \in pairs : IsSome(found(q).val)} |->
               [title |-> reg.pitch[1].title,
                pitch_accents |-> PitchAccents_from(Unwrap(found(p).val))]])

\* HashMap::insert
MapInsert(map, k, v) ==
  [x \in DOMAIN map \cup {k} |-> IF x = k THEN v ELSE map[x]]

\* YomitanDictionaries::lookup, the loop over the Frequency dictionaries;
\* form_order[i] is the order in which the i-th dictionary's HashSet of
\* dictionary forms is visited
RECURSIVE freq_join(_, _, _, _, _)
freq_join(reg, prefs, form_order, i, freq_res) ==
  IF i > Len(reg.freq) THEN Ok(freq_res)
  ELSE LET id == DictIdentity(reg.freq[i].title, reg.freq[i].revision) IN
    IF id \in prefs.freq_disabled_dictionaries
      THEN freq_join(reg, prefs, form_order, i + 1, freq_res)
    ELSE LET single == freq_lookup_terms(reg.freq[i], form_order[i]) IN
      IF single.tag # "Ok" THEN single
      ELSE freq_join(reg, prefs, form_order, i + 1,
                     MapInsert(freq_res, id, to_frequency_data(single.val)))

\* YomitanDictionaries::lookup.  order: the completion order of the spawned
\* Term tasks; span_enabled: whether the subscriber enables the function's
\* span, whose fields read self.terms[0]
lookup(reg, token_features, prefs, order, form_order, span_enabled) ==
  IF span_enabled /\ Len(reg.terms) = 0 THEN Panic
  ELSE LET dict_results == collect_results(reg, token_features, order, 1)
           pitch_results == pitch_join(reg, term_readings(dict_results)) IN
    IF pitch_results.tag # "Ok" THEN pitch_results
    ELSE LET freq_res == freq_join(reg, prefs, form_order, 1, <<>>) IN
      IF freq_res.tag # "Ok" THEN freq_res
      ELSE Ok([dict |-> dict_results, pitch |-> pitch_results.val,
               freq |-> freq_res.val])

\* YomitanDictionaries::new: load every directory of db/, in the order
\* read_dir yields them
RECURSIVE load_from(_, _, _)
load_from(names, i, reg) ==
  IF i > Len(names) THEN Ok(reg)
  ELSE LET opened == YomitanDictionary_new(names[i]) IN
    IF opened.tag # "Ok" THEN opened
    ELSE LET dict_type == identify_dictionary_type(opened.val) IN
      IF dict_type.tag = "Panic" THEN Panic
      ELSE IF dict_type.tag = "Err" THEN load_from(names, i + 1, reg)
      ELSE load_from(names, i + 1,
             [reg EXCEPT ![BucketOf(dict_type.val)] = Append(@, opened.val)])

YomitanDictionaries_new(names) == load_from(names, 1, EmptyRegistry)

(***************************************************************************)
(* Dictionaries on disk, after their ingest.  The term entries of "打" are *)
(* those of the repository's test dictionary (kv_store/mod.rs tests).      *)
(***************************************************************************)
TermE(text, reading) == [text |-> text, reading |-> reading]
PitchE(term, reading, pitches) ==
  [term |-> term, kind |-> "pitch", reading |-> Some(reading),
   pitches |-> pitches, value |-> None]
FreqE(term, reading, value) ==
  [term |-> term, kind |-> "freq", reading |-> reading,
   pitches |-> <<>>, value |-> value]
KanjiE(kanji) == [kanji |-> kanji]

\* index.json that parses as a DictionaryIndex; the fields validate reads
\* are those of the repository's test dictionary
Index(title, revision) ==
  Some([valid |-> TRUE, title |-> title, revision |-> revision,
        format |-> Some(3), source_language |-> None, target_language |-> None,
        is_updatable |-> FALSE, index_url |-> None, download_url |-> None])

\* char::is_ascii_lowercase on a code point
is_ascii_lowercase(c) == c \in 97..122

is_valid_iso_language_code(code) ==
  Len(code) \in {2, 3} /\ \A i \in 1..Len(code) : is_ascii_lowercase(code[i])

\* DictionaryIndex::validate
validate(index) ==
  IF IsSome(index.format) /\ Unwrap(index.format) \notin {1, 2, 3} THEN Err
  ELSE IF IsSome(index.source_language)
          /\ ~is_valid_iso_language_code(Unwrap(index.source_language)) THEN Err
  ELSE IF IsSome(index.target_language)
          /\ ~is_valid_iso_language_code(Unwrap(index.target_language)) THEN Err
  ELSE IF index.is_updatable
          /\ (~IsSome(index.index_url) \/ ~IsSome(index.download_url)) THEN Err
  ELSE Ok(<<>>)

TagE(name) == [tag_name |-> name]

Shard(schema, rows) == [schema |-> schema, rows |-> rows]
Archive(index, shards) == [index |-> index, shards |-> shards]

DirNames == {"jmdict", "daijirin", "broken_term", "nhk", "broken_pitch",
             "freq", "broken_freq", "kanjidic"}

\* what the archive <name>.zip holds: its index.json and its shards, merged
\* per schema, in the order process_archive handles the schemas
ArchiveOf ==
  [n \in DirNames |->
    CASE n = "jmdict" ->
           Archive(Index(<<"J">>, <<"1">>),
             <<Shard("term_bank",
                 <<Row(W_da_kanji, <<TermE(W_da_kanji, W_da),
                                     TermE(W_da_kanji, W_daasu_kata)>>),
                   Row(W_daasu, <<TermE(W_daasu, W_daasu)>>),
                   Row(W_mixed, <<TermE(W_mixed, W_da)>>)>>),
               Shard("tag_bank", <<Row(<<110>>, <<TagE(<<110>>)>>)>>)>>)
      [] n = "daijirin" ->
           Archive(Index(<<"D">>, <<"1">>),
             <<Shard("term_bank",
                 <<Row(W_daasu_kata, <<TermE(W_daasu_kata, W_daasu_kata)>>),
                   Row(W_daasu, <<TermE(W_daasu, W_daasu)>>),
                   Row(W_da_kanji, <<TermE(W_da_kanji, W_da)>>)>>)>>)
      [] n = "broken_term" ->
           Archive(Index(<<"B">>, <<"1">>),
             <<Shard("term_bank",
                 <<Row(W_da, <<TermE(W_da, W_da)>>),
                   MalformedRow(W_da_kanji),
                   UnreadableRow(W_daasu)>>)>>)
      [] n = "nhk" ->
           Archive(Index(<<"N">>, <<"1">>),
             <<Shard("term_meta_bank",
                 <<Row(W_da_kanji, <<PitchE(W_da_kanji, W_da, <<1>>),
                                     PitchE(W_da_kanji, W_daasu, <<0, 2>>)>>),
                   Row(W_daasu_kata,
                       <<PitchE(W_daasu_kata, W_daasu_kata, <<1>>)>>)>>)>>)
      [] n = "broken_pitch" ->
           Archive(Index(<<"Q">>, <<"1">>),
             <<Shard("term_meta_bank",
                 <<Row(W_da, <<PitchE(W_da, W_da, <<0>>)>>),
                   MalformedRow(W_da_kanji)>>)>>)
      [] n = "freq" ->
           Archive(Index(<<"F">>, <<"1">>),
             <<Shard("term_meta_bank",
                 <<Row(W_da_kanji, <<FreqE(W_da_kanji, None, Some(1))>>),
                   Row(W_daasu, <<FreqE(W_daasu, Some(W_daasu), None),
                                  PitchE(W_daasu, W_daasu, <<1>>)>>),
                   Row(W_daasu_kata, <<FreqE(W_daasu_kata, None, Some(3))>>)>>)>>)
      [] n = "broken_freq" ->
           Archive(Index(<<"G">>, <<"1">>),
             <<Shard("term_meta_bank",
                 <<Row(W_da, <<FreqE(W_da, None, Some(2))>>),
                   MalformedRow(W_da_kanji)>>)>>)
      [] n = "kanjidic" ->
           Archive(Index(<<"K">>, <<"1">>),
             <<Shard("kanji_bank",
                 <<Row(W_da_kanji, <<KanjiE(W_da_kanji)>>)>>)>>)]

\* the directory db/<name> once process_archive has returned Ok
Ingested(archive) ==
  Some([index |-> archive.index,
        stores |-> [s \in Schemas |->
          LET hits == {k \in 1..Len(archive.shards) : archive.shards[k].schema = s} IN
          IF hits = {} THEN None
          ELSE Some(Store(archive.shards[CHOOSE k \in hits : TRUE].rows))]])

Catalog == [n \in DirNames |-> Ingested(ArchiveOf[n])]

\* the token features a request carries
TokenFeatures ==
  {TokenFeature(Some(W_daasu_kata), Some(W_daasu_kata)),
   TokenFeature(Some(W_daasu_kata), Some(W_daasu)),
   TokenFeature(Some(W_mixed_kata), None),
   TokenFeature(Some(W_da_kanji), Some(W_da_kanji))}

RECURSIVE SeqsUpTo(_, _)
SeqsUpTo(S, n) ==
  IF n = 0 THEN {<<>>}
  ELSE LET shorter == SeqsUpTo(S, n - 1) IN
    shorter \cup {Append(q, x) : q \in shorter, x \in S}

\* the orders in which the elements of a set can be yielded
Perms(S) ==
  {q \in SeqsUpTo(S, Cardinality(S)) :
     Len(q) = Cardinality(S) /\ {q[i] : i \in 1..Len(q)} = S}

NumRegistered(reg) ==
  Len(reg.terms) + Len(reg.pitch) + Len(reg.freq) + Len(reg.kanji)

TermIdentities(reg) ==
  {DictIdentity(reg.terms[i].title, reg.terms[i].revision) : i \in 1..Len(reg.terms)}

FreqIdentities(reg) ==
  {DictIdentity(reg.freq[i].title, reg.freq[i].revision) : i \in 1..Len(reg.freq)}

(***************************************************************************)
(* Sequential specification: a registry built by load, register and clear, *)
(* and lookups on it                                                       *)
(***************************************************************************)
Init ==
  /\ db = Catalog
  /\ registry = EmptyRegistry
  /\ request = None
  /\ outcome = None
  /\ scan = <<>>
  /\ look = <<>>
  /\ lock = <<>>
  /\ yomitan = <<>>
  /\ call = None
  /\ progress = <<>>
  /\ proc = <<>>
  /\ unit = <<>>
  /\ ingest = <<>>

\* start-up: YomitanDictionaries::new over the directories db/ held then
Load ==
  /\ request = None
  /\ registry = EmptyRegistry
  /\ \E names \in SeqsUpTo(DirNames, MaxDicts) :
       LET loaded == YomitanDictionaries_new(names) IN
       /\ Len(names) > 0
       /\ \A i, j \in 1..Len(names) : names[i] = names[j] => i = j
       /\ loaded.tag = "Ok"
       /\ registry' = loaded.val
  /\ UNCHANGED <<db, request, outcome, scanvars, unitvars, auxvars>>

Register ==
  /\ request = None
  /\ NumRegistered(registry) < MaxDicts
  /\ \E name \in DirNames :
       registry' = register_dictionary(registry, name).reg
  /\ UNCHANGED <<db, request, outcome, scanvars, unitvars, auxvars>>

Clear ==
  /\ request = None
  /\ registry' = clear(registry)
  /\ UNCHANGED <<db, request, outcome, scanvars, unitvars, auxvars>>

Lookup ==
  /\ request = None
  /\ \E token_features \in SeqsUpTo(TokenFeatures, MaxTokens),
        term_disabled \in SUBSET TermIdentities(registry),
        freq_disabled \in SUBSET FreqIdentities(registry),
        span_enabled \in BOOLEAN :
       LET prefs == [term_disabled_dictionaries |-> term_disabled,
                     freq_disabled_dictionaries |-> freq_disabled] IN
       \E order \in Perms(enabled_terms(registry, prefs)),
          form_order \in [1..Len(registry.freq) ->
                            Perms(dictionary_forms(token_features))] :
         /\ request' = Some([token_features |-> token_features, prefs |-> prefs,
                             order |-> order, form_order |-> form_order,
                             span_enabled |-> span_enabled])
         /\ outcome' = Some(lookup(registry, token_features, prefs, order,
                                   form_order, span_enabled))
  /\ UNCHANGED <<db, registry, scanvars, unitvars, auxvars>>

Respond ==
  /\ request # None
  /\ request' = None
  /\ outcome' = None
  /\ UNCHANGED <<db, registry, scanvars, unitvars, auxvars>>

Next == Load \/ Register \/ Clear \/ Lookup \/ Respond

Spec == Init /\ [][Next]_vars

(***************************************************************************)
(* Concurrent specification: scan requests (http_handlers.rs scan_dicts,   *)
(* dict_db_scan_fs.rs scan_fs) that ingest and register archives while     *)
(* lookups (http_handlers.rs lookup_term) read the registry.  The handlers *)
(* run on a multi-threaded runtime, so the file-system steps of two scans  *)
(* interleave.                                                             *)
(***************************************************************************)
Scans == {"s1", "s2"}
Lookups == {"l1"}

\* what can go wrong with an archive
Faults ==
  {"none", "unreadable", "no_index", "bad_shard", "bad_key", "db_create_error",
   "storage_error"}

\* what can be wrong with an index.json that parses
IndexFaults == {"bad_format", "bad_language", "not_updatable"}

MiB == 1024 * 1024

\* the max_size_mb a scan request can carry
MaxSizes == {None, Some(10)}

\* file sizes in bytes: 10 MiB, one byte more, and 11 MiB
Sizes == {10 * MiB, 10 * MiB + 1, 11 * MiB}

\* a file of yomitan/: the stem its name normalizes to, whether its name
\* is NFC already, what is wrong with it, and its size in bytes
ZipFile(stem, nfc, fault, size) ==
  [stem |-> stem, nfc |-> nfc, fault |-> fault, size |-> size]

\* the index.json of an archive
IndexOf(file) ==
  LET index == Unwrap(ArchiveOf[file.stem].index) IN
  CASE file.fault = "bad_format" -> Some([index EXCEPT !.format = Some(4)])
    [] file.fault = "bad_language" ->
         Some([index EXCEPT !.source_language = Some(<<74, 65>>)])   \* "JA"
    [] file.fault = "not_updatable" ->
         Some([index EXCEPT !.is_updatable = TRUE,
                            !.index_url = Some(<<117>>)])            \* "u"
    [] OTHER -> Some(index)

\* the token features of the lookups that run beside the scans
ScanTokens == <<TokenFeature(Some(W_da_kanji), Some(W_da_kanji))>>

NoPrefs == [term_disabled_dictionaries |-> {}, freq_disabled_dictionaries |-> {}]

\* RwLock::read is granted while no writer holds the lock
can_read(lk) == ~IsSome(lk.writer)

\* a write lock that does not wait for the readers
can_write_beside_readers(lk) == ~IsSome(lk.writer)

\* RwLock::write is granted while nobody holds the lock
can_write(lk) == ~IsSome(lk.writer) /\ lk.readers = {}

\* max_size_mb is the parameter of the request the scanner serves;
\* existed, found, filtered and calls record what the scan met: whether
\* db/<filename> existed when the scan reached the archive, how many
\* archives it found so, which archives it size-filtered, how many
\* register_dictionary calls it made, for which archives process_archive
\* returned Ok (ok) or an error (failed), for which archives it called
\* register_dictionary (registered), and from which directories the
\* dictionaries came that the registry held when scan_dicts cleared it (had)
IdleScan ==
  [pc |-> "idle", i |-> 0, k |-> 0, snap |-> <<>>, max_size_mb |-> None,
   zip_count |-> 0, processed |-> 0, skipped |-> 0, errors |-> 0,
   size_filtered |-> 0, existed |-> FALSE, found |-> 0, filtered |-> {},
   calls |-> 0, ok |-> {}, failed |-> {}, registered |-> {}, had |-> {}]

IdleLookup ==
  [pc |-> "idle", view |-> EmptyRegistry, terms |-> <<>>, pitch |-> <<>>,
   freq |-> <<>>, found |-> FALSE]

EmptyDir == [index |-> None, stores |-> NoStores]

Ended(s) == scan[s].pc \in {"done", "aborted", "panicked"}

\* the archive the scan is at
CurFile(s) == yomitan[scan[s].i]
CurDir(s) == CurFile(s).stem
CurShards(s) == ArchiveOf[CurDir(s)].shards

\* get_num_rows can fail with SQLITE_BUSY on a store whose insert_all
\* transaction is open
BusyStore(name) ==
  /\ IsSome(db[name])
  /\ IsSome(Unwrap(db[name]).index)
  /\ \E schema \in {"term_bank", "term_meta_bank", "kanji_bank"} :
       /\ IsSome(Unwrap(db[name]).stores[schema])
       /\ Unwrap(Unwrap(db[name]).stores[schema]).writing

\* an error of process_archive that is counted and followed by the
\* registration of the archive
Failed_then_registers(s) ==
  [scan EXCEPT ![s].errors = @ + 1, ![s].failed = @ \cup {scan[s].i},
               ![s].pc = "lock"]

\* `continue` after an error that is logged and not counted
Failed_uncounted(s) ==
  [scan EXCEPT ![s].failed = @ \cup {scan[s].i}, ![s].i = @ + 1, ![s].pc = "check"]

\* `continue` after an error: count it and go to the next entry
Failed(s) ==
  [scan EXCEPT ![s].errors = @ + 1, ![s].failed = @ \cup {scan[s].i},
               ![s].i = @ + 1, ![s].pc = "check"]

\* the directories the dictionaries of a registry were opened from
Origins(reg) ==
  {reg[b][i].origin : <<b, i>> \in {<<c, j>> \in Buckets \X (1..MaxDicts) :
                                      j <= Len(reg[c])}}

ScanInit ==
  /\ db = [n \in DirNames |-> None]
  /\ registry = EmptyRegistry
  /\ request = None
  /\ outcome = None
  /\ look = [l \in Lookups |-> IdleLookup]
  /\ lock = [writer |-> None, readers |-> {}]
  /\ call = None
  /\ progress = <<>>
  /\ proc = <<>>
  /\ unit = <<>>
  /\ ingest = <<>>
  /\ \E fault \in Faults \cup IndexFaults, nfc \in BOOLEAN, size \in Sizes,
        max_size_mb \in MaxSizes, first_max_size_mb \in MaxSizes :
       /\ first_max_size_mb \in {None, max_size_mb}
       /\ (~nfc => fault = "none")
       /\ (IsSome(max_size_mb) => fault = "none" /\ nfc)
       /\ (~IsSome(max_size_mb) => size = 10 * MiB)
       /\ yomitan = <<ZipFile("jmdict", TRUE, "none", MiB),
                      ZipFile("freq", nfc, fault, MiB),
                      ZipFile("nhk", TRUE, "none", size)>>
       /\ scan = [s \in Scans |->
                    [IdleScan EXCEPT !.max_size_mb =
                       IF s = "s1" THEN first_max_size_mb ELSE max_size_mb]]

\* scan_dicts, once per scanner: clear the registry under the write lock,
\* then scan_fs
ScanStart(s) ==
  /\ scan[s].pc = "idle"
  /\ can_write(lock)
  /\ registry' = clear(registry)
  /\ scan' = [scan EXCEPT ![s].pc = "read_dir", ![s].had = Origins(registry)]
  /\ UNCHANGED <<db, look, lock, yomitan, seqvars, unitvars, auxvars>>

\* scan_fs: fs::read_dir, sorted by path
ScanReadDir(s) ==
  /\ scan[s].pc = "read_dir"
  /\ scan' = [scan EXCEPT ![s].pc = "check", ![s].i = 1,
                          ![s].snap = [j \in 1..Len(yomitan) |-> yomitan[j].nfc]]
  /\ UNCHANGED <<db, registry, look, lock, yomitan, seqvars, unitvars, auxvars>>

\* the size filter of scan_fs: metadata.len() / (1024 * 1024) > max_size
size_filter(max_size_mb, size) ==
  IsSome(max_size_mb) /\ size \div (1024 * 1024) > Unwrap(max_size_mb)

\* the loop head with an existing directory counted as skipped and passed
\* over without registration
ScanCheck_skip_unregistered(s) ==
  /\ scan[s].pc = "check"
  /\ IF scan[s].i > Len(yomitan)
       THEN scan' = [scan EXCEPT ![s].pc = "done"]
     ELSE IF CurFile(s).nfc # scan[s].snap[scan[s].i]
       THEN scan' = [scan EXCEPT ![s].i = @ + 1]
     ELSE IF size_filter(scan[s].max_size_mb, CurFile(s).size)
       THEN scan' = [scan EXCEPT ![s].zip_count = @ + 1,
                                 ![s].size_filtered = @ + 1,
                                 ![s].filtered = @ \cup {scan[s].i},
                                 ![s].i = @ + 1]
     ELSE IF IsSome(db[CurDir(s)])
       THEN scan' = [scan EXCEPT ![s].zip_count = @ + 1, ![s].skipped = @ + 1,
                                 ![s].existed = TRUE, ![s].found = @ + 1,
                                 ![s].i = @ + 1]
     ELSE IF ~CurFile(s).nfc
       THEN scan' = [scan EXCEPT ![s].zip_count = @ + 1, ![s].existed = FALSE,
                                 ![s].pc = "rename"]
     ELSE scan' = [scan EXCEPT ![s].zip_count = @ + 1, ![s].existed = FALSE,
                               ![s].pc = "open"]
  /\ UNCHANGED <<db, registry, look, lock, yomitan, seqvars, unitvars, auxvars>>

\* scan_fs, top of the loop: is_file, the .zip extension, the size filter,
\* and whether db/<filename> exists already
ScanCheck(s) ==
  /\ scan[s].pc = "check"
  /\ IF scan[s].i > Len(yomitan)
       THEN scan' = [scan EXCEPT ![s].pc = "done"]
     ELSE IF CurFile(s).nfc # scan[s].snap[scan[s].i]
       THEN scan' = [scan EXCEPT ![s].i = @ + 1]
     ELSE IF size_filter(scan[s].max_size_mb, CurFile(s).size)
       THEN scan' = [scan EXCEPT ![s].zip_count = @ + 1,
                                 ![s].size_filtered = @ + 1,
                                 ![s].filtered = @ \cup {scan[s].i},
                                 ![s].i = @ + 1]
     ELSE IF IsSome(db[CurDir(s)])
       THEN scan' = [scan EXCEPT ![s].zip_count = @ + 1, ![s].skipped = @ + 1,
                                 ![s].existed = TRUE, ![s].found = @ + 1,
                                 ![s].pc = "lock"]
     ELSE IF ~CurFile(s).nfc
       THEN scan' = [scan EXCEPT ![s].zip_count = @ + 1, ![s].existed = FALSE,
                                 ![s].pc = "rename"]
     ELSE scan' = [scan EXCEPT ![s].zip_count = @ + 1, ![s].existed = FALSE,
                               ![s].pc = "open"]
  /\ UNCHANGED <<db, registry, look, lock, yomitan, seqvars, unitvars, auxvars>>

\* scan_fs: tokio::fs::rename(..).await? to the normalized path
ScanRename(s) ==
  /\ scan[s].pc = "rename"
  /\ \/ /\ ~CurFile(s).nfc
        /\ yomitan' = [yomitan EXCEPT ![scan[s].i].nfc = TRUE]
        /\ scan' = [scan EXCEPT ![s].pc = "open"]
     \/ /\ yomitan' = yomitan
        /\ scan' = [scan EXCEPT ![s].pc = "aborted"]
  /\ UNCHANGED <<db, registry, look, lock, seqvars, unitvars, auxvars>>

\* process_archive: open the zip, and the check of the dictionary directory
ScanOpen(s) ==
  /\ scan[s].pc = "open"
  /\ IF CurFile(s).fault = "unreadable" THEN scan' = Failed(s)
     ELSE IF IsSome(db[CurDir(s)])
       THEN scan' = [scan EXCEPT ![s].processed = @ + 1,
                                 ![s].ok = @ \cup {scan[s].i}, ![s].pc = "lock"]
     ELSE scan' = [scan EXCEPT ![s].pc = "mkdir"]
  /\ UNCHANGED <<db, registry, look, lock, yomitan, seqvars, unitvars, auxvars>>

\* process_archive: fs::create_dir
ScanMkdir(s) ==
  /\ scan[s].pc = "mkdir"
  /\ IF IsSome(db[CurDir(s)])
       THEN scan' = Failed(s) /\ db' = db
       ELSE /\ db' = [db EXCEPT ![CurDir(s)] = Some(EmptyDir)]
            /\ scan' = [scan EXCEPT ![s].pc = "index"]
  /\ UNCHANGED <<registry, look, lock, yomitan, seqvars, unitvars, auxvars>>

\* process_archive: extract index.json and parse it
ScanIndex(s) ==
  /\ scan[s].pc = "index"
  /\ IF CurFile(s).fault = "no_index"
       THEN scan' = Failed(s) /\ db' = db
       ELSE /\ db' = [db EXCEPT ![CurDir(s)] =
                        Some([Unwrap(@) EXCEPT !.index = IndexOf(CurFile(s))])]
            /\ scan' = [scan EXCEPT ![s].pc = "schema", ![s].k = 1]
  /\ UNCHANGED <<registry, look, lock, yomitan, seqvars, unitvars, auxvars>>

\* process_schema: GroupedJSON::new_from_archive, DictionaryDB::new (whose
\* error is logged, after which process_schema returns Ok) and the start
\* of insert_all's transaction; after the last schema, copy_static_assets
\* and the return of process_archive
ScanSchema(s) ==
  /\ scan[s].pc = "schema"
  /\ IF scan[s].k > Len(CurShards(s))
       THEN /\ scan' = [scan EXCEPT ![s].processed = @ + 1,
                                    ![s].ok = @ \cup {scan[s].i}, ![s].pc = "lock"]
            /\ db' = db
     ELSE IF CurFile(s).fault = "bad_shard" THEN scan' = Failed(s) /\ db' = db
     ELSE IF CurFile(s).fault = "bad_key"
       THEN scan' = [scan EXCEPT ![s].pc = "panicked"] /\ db' = db
     ELSE IF CurFile(s).fault = "db_create_error"
       THEN scan' = [scan EXCEPT ![s].k = @ + 1] /\ db' = db
     ELSE /\ db' = [db EXCEPT ![CurDir(s)] =
                      Some([Unwrap(@) EXCEPT !.stores[CurShards(s)[scan[s].k].schema] =
                        Some([rows |-> <<>>, writing |-> TRUE,
                              pending |-> CurShards(s)[scan[s].k].rows])])]
          /\ scan' = [scan EXCEPT ![s].pc = "commit"]
  /\ UNCHANGED <<registry, look, lock, yomitan, seqvars, unitvars, auxvars>>

\* insert_all: tx.commit(), or the rollback when the insert fails
ScanCommit(s) ==
  /\ scan[s].pc = "commit"
  /\ LET schema == CurShards(s)[scan[s].k].schema
         store == Unwrap(Unwrap(db[CurDir(s)]).stores[schema]) IN
     IF CurFile(s).fault = "storage_error"
       THEN /\ db' = [db EXCEPT ![CurDir(s)] =
                        Some([Unwrap(@) EXCEPT !.stores[schema] = Some(Store(<<>>))])]
            /\ scan' = Failed(s)
       ELSE /\ db' = [db EXCEPT ![CurDir(s)] =
                        Some([Unwrap(@) EXCEPT !.stores[schema] =
                                Some(Store(store.pending))])]
            /\ scan' = [scan EXCEPT ![s].pc = "schema", ![s].k = @ + 1]
  /\ UNCHANGED <<registry, look, lock, yomitan, seqvars, unitvars, auxvars>>

\* scan_fs: yomi_dicts.write().await
ScanLock(s) ==
  /\ scan[s].pc = "lock"
  /\ can_write(lock)
  /\ lock' = [lock EXCEPT !.writer = Some(s)]
  /\ scan' = [scan EXCEPT ![s].pc = "register"]
  /\ UNCHANGED <<db, registry, look, yomitan, seqvars, unitvars, auxvars>>

\* scan_fs: register_dictionary(dict_dir) under the write guard, which is
\* dropped at the end of the statement; an Err is logged, and a panic of
\* register_dictionary unwinds out of the scan
ScanRegister(s) ==
  /\ scan[s].pc = "register"
  /\ \/ /\ registry' = register_dictionary(registry, CurDir(s)).reg
        /\ scan' = IF register_dictionary(registry, CurDir(s)).res = "Panic"
                     THEN [scan EXCEPT ![s].pc = "panicked", ![s].calls = @ + 1,
                                       ![s].registered = @ \cup {scan[s].i}]
                     ELSE [scan EXCEPT ![s].i = @ + 1, ![s].pc = "check",
                                       ![s].calls = @ + 1,
                                       ![s].registered = @ \cup {scan[s].i}]
     \/ /\ BusyStore(CurDir(s))
        /\ registry' = registry
        /\ scan' = [scan EXCEPT ![s].i = @ + 1, ![s].pc = "check",
                                ![s].calls = @ + 1,
                                ![s].registered = @ \cup {scan[s].i}]
  /\ lock' = [lock EXCEPT !.writer = None]
  /\ UNCHANGED <<db, look, yomitan, seqvars, unitvars, auxvars>>

\* lookup_term: yomi_dicts.read().await
LookAcquire(l) ==
  /\ look[l].pc = "idle"
  /\ can_read(lock)
  /\ lock' = [lock EXCEPT !.readers = @ \cup {l}]
  /\ look' = [look EXCEPT ![l].pc = "terms", ![l].view = registry]
  /\ UNCHANGED <<db, registry, scan, yomitan, seqvars, unitvars, auxvars>>

\* lookup: the Term fan-out over self.terms and the collection of results
LookTerms(l) ==
  /\ look[l].pc = "terms"
  /\ \E order \in Perms(enabled_terms(registry, NoPrefs)) :
       LET dict_results == collect_results(registry, ScanTokens, order, 1) IN
       look' = [look EXCEPT ![l].terms = registry.terms,
                            ![l].found = dict_results # <<>>,
                            ![l].pc = IF dict_results # <<>> THEN "pitch" ELSE "freq"]
  /\ UNCHANGED <<db, registry, scan, lock, yomitan, seqvars, unitvars, auxvars>>

\* lookup: the pitch join over self.pitch[0]; the panic when there is none
\* drops the read guard
LookPitch(l) ==
  /\ look[l].pc = "pitch"
  /\ IF Len(registry.pitch) = 0
       THEN /\ look' = [look EXCEPT ![l] = IdleLookup]
            /\ lock' = [lock EXCEPT !.readers = @ \ {l}]
       ELSE /\ look' = [look EXCEPT ![l].pitch = registry.pitch, ![l].pc = "freq"]
            /\ lock' = lock
  /\ UNCHANGED <<db, registry, scan, yomitan, seqvars, unitvars, auxvars>>

\* lookup: the loop over self.freq
LookFreq(l) ==
  /\ look[l].pc = "freq"
  /\ look' = [look EXCEPT ![l].freq = registry.freq, ![l].pc = "release"]
  /\ UNCHANGED <<db, registry, scan, lock, yomitan, seqvars, unitvars, auxvars>>

\* lookup_term: the read guard is dropped when lookup has returned
LookRelease(l) ==
  /\ look[l].pc = "release"
  /\ lock' = [lock EXCEPT !.readers = @ \ {l}]
  /\ look' = [look EXCEPT ![l] = IdleLookup]
  /\ UNCHANGED <<db, registry, scan, yomitan, seqvars, unitvars, auxvars>>

ScanNext ==
  \/ \E s \in Scans :
       \/ ScanStart(s) \/ ScanReadDir(s) \/ ScanCheck(s) \/ ScanRename(s)
       \/ ScanOpen(s) \/ ScanMkdir(s) \/ ScanIndex(s) \/ ScanSchema(s)
       \/ ScanCommit(s) \/ ScanLock(s) \/ ScanRegister(s)
  \/ \E l \in Lookups :
       \/ LookAcquire(l) \/ LookTerms(l) \/ LookPitch(l) \/ LookFreq(l)
       \/ LookRelease(l)

ScanSpec == ScanInit /\ [][ScanNext]_vars

(***************************************************************************)
(* Classification specification: register_dictionary applied to            *)
(* directories whose tables are absent, empty or populated in every        *)
(* combination.                                                            *)
(***************************************************************************)
ClassNames == {"a", "b"}

IpaE(term) ==
  [term |-> term, kind |-> "ipa", reading |-> None, pitches |-> <<>>,
   value |-> None]

TermTables ==
  {None, Some(Store(<<>>)),
   Some(Store(<<Row(W_da_kanji, <<TermE(W_da_kanji, W_da)>>)>>))}

\* term-meta tables: absent, empty, and with a first row whose first entry
\* is a frequency, a pitch, an IPA entry, or an entry of an unknown type
\* (which serde_json::from_str rejects)
MetaTables ==
  {None, Some(Store(<<>>)),
   Some(Store(<<Row(W_da_kanji, <<FreqE(W_da_kanji, None, Some(1)),
                                  PitchE(W_da_kanji, W_da, <<1>>)>>)>>)),
   Some(Store(<<Row(W_da_kanji, <<PitchE(W_da_kanji, W_da, <<1>>),
                                  FreqE(W_da_kanji, None, Some(1))>>)>>)),
   Some(Store(<<Row(W_da_kanji, <<IpaE(W_da_kanji)>>)>>)),
   Some(Store(<<MalformedRow(W_da_kanji)>>))}

KanjiTables ==
  {None, Some(Store(<<>>)),
   Some(Store(<<Row(W_da_kanji, <<KanjiE(W_da_kanji)>>)>>))}

TagTables == {None, Some(Store(<<Row(<<110>>, <<TagE(<<110>>)>>)>>))}

Revisions == {<<"1">>, <<"x", "k", "a", "n", "j", "i">>}

ClassDir(title, revision, term, meta, kanji, tag) ==
  Some([index |-> Index(title, revision),
        stores |-> [s \in Schemas |->
          CASE s = "term_bank" -> term
            [] s = "term_meta_bank" -> meta
            [] s = "kanji_bank" -> kanji
            [] s = "tag_bank" -> tag
            [] OTHER -> None]])

\* the directories a is drawn from: every combination
ClassDirsA ==
  {ClassDir(<<"T">>, revision, term, meta, kanji, tag) :
     revision \in Revisions, term \in TermTables, meta \in MetaTables,
     kanji \in KanjiTables, tag \in TagTables}

\* the directories b is drawn from: Term, Frequency or unclassifiable
\* dictionaries, with a's title or another
ClassDirsB ==
  {ClassDir(title, <<"1">>, term, meta, None, None) :
     title \in {<<"T">>, <<"U">>},
     term \in {t \in TermTables : t # Some(Store(<<>>))},
     meta \in {m \in MetaTables :
                 m = None \/ (m # None /\ Len(Unwrap(m).rows) > 0
                              /\ Unwrap(m).rows[1].json.valid
                              /\ Unwrap(m).rows[1].json.entries[1].kind = "freq")}}

ClassInit ==
  /\ \E a \in ClassDirsA, b \in ClassDirsB :
       db = [n \in ClassNames |-> IF n = "a" THEN a ELSE b]
  /\ registry = EmptyRegistry
  /\ request = None
  /\ outcome = None
  /\ scan = <<>>
  /\ look = <<>>
  /\ lock = <<>>
  /\ yomitan = <<>>
  /\ call = None
  /\ progress = <<>>
  /\ proc = <<>>
  /\ unit = <<>>
  /\ ingest = <<>>

\* register_dictionary(db/<name>): the registry before, the classification
\* made and the result are kept in call
ClassRegister(name) ==
  /\ NumRegistered(registry) < MaxDicts
  /\ LET opened == YomitanDictionary_new(name)
         returned == register_dictionary(registry, name) IN
     /\ registry' = returned.reg
     /\ call' = Some([name |-> name, before |-> registry,
                      dict_type |-> IF opened.tag = "Ok"
                                      THEN identify_dictionary_type(opened.val)
                                      ELSE Err,
                      res |-> returned.res])
  /\ UNCHANGED <<db, seqvars, scanvars, ingest, auxvars>>

ClassClear ==
  /\ registry # EmptyRegistry
  /\ registry' = clear(registry)
  /\ call' = None
  /\ UNCHANGED <<db, seqvars, scanvars, ingest, auxvars>>

ClassNext == (\E name \in ClassNames : ClassRegister(name)) \/ ClassClear

ClassSpec == ClassInit /\ [][ClassNext]_vars

(***************************************************************************)
(* Ingest specification: process_schema on the shard files of one schema:  *)
(* GroupedJSON::new_from_archive, DictionaryDB::new and insert_all, with    *)
(* every step that returns a Result free to fail.                          *)
(***************************************************************************)
\* a shard entry (a JSON array): value.get(0).as_str() and the rest
Entry(first, body) == [first |-> first, body |-> body]

\* first fields: two terms, the empty string, and a value that is no string
ShardEntries ==
  {Entry(Some(W_da_kanji), 1), Entry(Some(W_da_kanji), 2), Entry(Some(W_da), 1),
   Entry(Some(<<>>), 1), Entry(None, 1)}

ShardFiles == SeqsUpTo(ShardEntries, MaxEntries)

RECURSIVE merge_json(_, _)
\* new_from_archive: merged_json.extend(json_values) over the files of the
\* schema's prefix, in the order the archive lists them
merge_json(files, i) ==
  IF i > Len(files) THEN <<>> ELSE files[i] \o merge_json(files, i + 1)

\* an insertion into the map in which the entry replaces those of its key
push_entry_replacing(map, text, value) == MapInsert(map, text, <<value>>)

\* from_json, the body of the loop: push onto the entries of the key, or
\* insert the key
push_entry(map, text, value) ==
  IF text \in DOMAIN map
    THEN MapInsert(map, text, Append(map[text], value))
    ELSE MapInsert(map, text, <<value>>)

\* GroupedJSON::from_json: the entries grouped by their first field; the
\* unwrap() panics on a first field that is no string
RECURSIVE from_json(_, _, _)
from_json(json, i, map) ==
  IF i > Len(json) THEN Ok(map)
  ELSE IF ~IsSome(json[i].first) THEN Panic
  ELSE from_json(json, i + 1, push_entry(map, Unwrap(json[i].first), json[i]))

\* a drop of the transaction that keeps the rows inserted so far
rollback_keeps_batches(store) ==
  [rows |-> store.rows \o store.pending, writing |-> FALSE, pending |-> <<>>]

\* dropping the rusqlite Transaction without commit: ROLLBACK
rollback(store) == [rows |-> store.rows, writing |-> FALSE, pending |-> <<>>]

\* tx.commit()
commit(store) ==
  [rows |-> store.rows \o store.pending, writing |-> FALSE, pending |-> <<>>]

\* insert_batch: one INSERT of the (key, json) pairs of the batch
insert_batch(store, batch) == [store EXCEPT !.pending = @ \o batch]

\* inserted: what insert_all returned; result: what process_schema returned
IngestStart(files) ==
  [pc |-> "group", files |-> files, grouped |-> <<>>, order |-> <<>>,
   next |-> 0, batch |-> <<>>, store |-> None, written |-> 0,
   progress |-> 0, inserted |-> "NotCalled", result |-> "Running"]

IngestInit ==
  /\ db = <<>>
  /\ registry = EmptyRegistry
  /\ request = None
  /\ outcome = None
  /\ scan = <<>>
  /\ look = <<>>
  /\ lock = <<>>
  /\ yomitan = <<>>
  /\ call = None
  /\ progress = <<>>
  /\ proc = <<>>
  /\ unit = <<>>
  /\ \E files \in SeqsUpTo(ShardFiles, MaxShards) : ingest = IngestStart(files)

\* an error return of insert_all, which process_schema passes on: the
\* transaction, if begun, is dropped
IngestFail ==
  [ingest EXCEPT !.pc = "done", !.inserted = "Err", !.result = "Err",
                 !.store = Some(rollback(Unwrap(@)))]

\* process_schema: new_from_archive, which can fail on a file of the
\* archive; nothing is inserted when no entry was found
IngestGroup ==
  /\ ingest.pc = "group"
  /\ LET grouped == from_json(merge_json(ingest.files, 1), 1, <<>>) IN
     \/ /\ grouped.tag = "Panic"
        /\ ingest' = [ingest EXCEPT !.pc = "done", !.result = "Panic"]
     \/ /\ grouped.tag = "Ok"
        /\ ingest' = [ingest EXCEPT
             !.grouped = grouped.val,
             !.pc = IF DOMAIN grouped.val = {} THEN "done" ELSE "begin",
             !.result = IF DOMAIN grouped.val = {} THEN "Ok" ELSE @]
     \/ /\ Len(ingest.files) > 0
        /\ ingest' = [ingest EXCEPT !.pc = "done", !.result = "Err"]
  /\ UNCHANGED <<db, registry, seqvars, scanvars, call, auxvars>>

\* process_schema: DictionaryDB::new, whose error is logged and not
\* returned; insert_all: create_task and conn.transaction().  order is the
\* order in which the HashMap yields its keys
IngestBegin ==
  /\ ingest.pc = "begin"
  /\ \/ \E order \in Perms(DOMAIN ingest.grouped) :
          ingest' = [ingest EXCEPT
            !.store = Some([rows |-> <<>>, writing |-> TRUE, pending |-> <<>>]),
            !.order = order, !.next = 1, !.pc = "fill"]
     \/ ingest' = [ingest EXCEPT !.pc = "done", !.result = "Ok"]
     \/ ingest' = [ingest EXCEPT !.store = Some(Store(<<>>)), !.pc = "done",
                                 !.inserted = "Err", !.result = "Err"]
  /\ UNCHANGED <<db, registry, seqvars, scanvars, call, auxvars>>

\* insert_all: one turn of the loop over grouped_json: push the pair, and
\* with a full batch insert_batch, progress_state.increment, batch.clear();
\* to_string, insert_batch and increment can fail
IngestPush ==
  /\ ingest.pc = "fill"
  /\ ingest.next <= Len(ingest.order)
  /\ LET key == ingest.order[ingest.next]
         batch == Append(ingest.batch, Row(key, ingest.grouped[key])) IN
     IF Len(batch) < BATCH_SIZE
       THEN \/ ingest' = [ingest EXCEPT !.batch = batch, !.next = @ + 1]
            \/ ingest' = IngestFail
       ELSE \/ ingest' = [ingest EXCEPT
                 !.store = Some(insert_batch(Unwrap(@), batch)),
                 !.written = @ + Len(batch), !.progress = @ + Len(batch),
                 !.batch = <<>>, !.next = @ + 1]
            \/ ingest' = IngestFail
            \/ ingest' = [IngestFail EXCEPT
                 !.store = Some(rollback(insert_batch(Unwrap(ingest.store), batch))),
                 !.written = @ + Len(batch)]
  /\ UNCHANGED <<db, registry, seqvars, scanvars, call, auxvars>>

\* insert_all after the loop: the remaining batch, its progress update and
\* tx.commit(), each of which can fail
IngestCommit ==
  /\ ingest.pc = "fill"
  /\ ingest.next > Len(ingest.order)
  /\ LET store == insert_batch(Unwrap(ingest.store), ingest.batch)
         written == ingest.written + Len(ingest.batch) IN
     \/ ingest' = [ingest EXCEPT
          !.store = Some(commit(store)), !.written = written,
          !.progress = @ + Len(ingest.batch), !.batch = <<>>,
          !.pc = "done", !.inserted = "Ok", !.result = "Ok"]
     \/ ingest' = IngestFail
     \/ ingest' = [IngestFail EXCEPT
          !.store = Some(rollback(store)), !.written = written]
  /\ UNCHANGED <<db, registry, seqvars, scanvars, call, auxvars>>

IngestNext == IngestGroup \/ IngestBegin \/ IngestPush \/ IngestCommit

IngestSpec == IngestInit /\ [][IngestNext]_vars

(***************************************************************************)
(* ProgressStateTable (kv_store/utils.rs): every method takes the Mutex    *)
(* around the connection and runs one SQL statement                        *)
(***************************************************************************)
\* a row of the progress table
ProgressData(task_id, task_type, schema_name, total) ==
  [task_id |-> task_id, task_type |-> task_type, schema_name |-> schema_name,
   current |-> 0, total |-> total]

\* create_task: INSERT with a fresh Uuid::new_v4 as the primary key and
\* current = 0
create_task(table, task_type, schema_name, total) ==
  LET task_id == Len(table) + 1 IN
  [task_id |-> task_id,
   table |-> Append(table, ProgressData(task_id, task_type, schema_name, total))]

\* an UPDATE without its WHERE clause
increment_every_row(table, task_id, amount) ==
  [i \in DOMAIN table |-> [table[i] EXCEPT !.current = @ + amount]]

\* increment: UPDATE progress SET current = current + ?1 WHERE task_id = ?2
increment(table, task_id, amount) ==
  [i \in DOMAIN table |->
     IF table[i].task_id = task_id
       THEN [table[i] EXCEPT !.current = @ + amount]
       ELSE table[i]]

\* get_progress: query_row fails when no row has the id
get_progress(table, task_id) ==
  LET hits == {i \in DOMAIN table : table[i].task_id = task_id} IN
  IF hits = {} THEN Err ELSE Ok(table[CHOOSE i \in hits : TRUE])

\* get_all_tasks: SELECT ... FROM progress
get_all_tasks(table) == table

\* is_task_complete with a total of 0 accepted
is_task_complete_any_total(table, task_id) ==
  LET data == get_progress(table, task_id) IN
  IF data.tag # "Ok" THEN Err
  ELSE Ok(data.val.current = data.val.total)

\* is_task_complete
is_task_complete(table, task_id) ==
  LET data == get_progress(table, task_id) IN
  IF data.tag # "Ok" THEN Err
  ELSE Ok(data.val.current = data.val.total /\ data.val.total > 0)

(***************************************************************************)
(* Task specification: the progress tasks of one process_archive           *)
(* (dict_db_scan_fs.rs), from the first process_schema to the return of    *)
(* copy_static_assets                                                      *)
(***************************************************************************)
MaxAssets == 1    \* at most this many files of an archive are static assets

\* the order of the process_schema calls
SchemaOrder ==
  <<"term_bank", "tag_bank", "term_meta_bank", "kanji_bank", "kanji_meta_bank">>

\* the shard files of one schema in an archive: none, a file that is an
\* empty array, one file of one entry, two files with two keys
SchemaFiles ==
  {<<>>,
   <<<<>>>>,
   <<<<Entry(Some(W_da_kanji), 1)>>>>,
   <<<<Entry(Some(W_da_kanji), 1), Entry(Some(W_da_kanji), 2)>>,
     <<Entry(Some(W_da), 1)>>>>}

\* files: the shard files of the schema process_schema is at; grouped: the
\* number of keys of its GroupedJSON; task: the task being incremented
TaskStart(shards, assets, static_exists) ==
  [pc |-> "merge", k |-> 1, j |-> 0, shards |-> shards, assets |-> assets,
   static_exists |-> static_exists, grouped |-> 0, task |-> 0,
   result |-> "Running"]

TaskInit ==
  /\ db = <<>>
  /\ registry = EmptyRegistry
  /\ request = None
  /\ outcome = None
  /\ scan = <<>>
  /\ look = <<>>
  /\ lock = <<>>
  /\ yomitan = <<>>
  /\ call = None
  /\ ingest = <<>>
  /\ unit = <<>>
  /\ progress = <<>>
  /\ \E shards \in [1..Len(SchemaOrder) -> SchemaFiles],
        assets \in 0..MaxAssets, static_exists \in BOOLEAN :
       proc = TaskStart(shards, assets, static_exists)

\* an error return that `?` passes up to scan_fs
TaskFail == [proc EXCEPT !.pc = "returned", !.result = "Err"]

\* new_from_archive: find_files_with_prefix and the MergeJson task, whose
\* total is the number of files found
TaskMerge ==
  /\ proc.pc = "merge"
  /\ proc.k <= Len(SchemaOrder)
  /\ \/ LET made == create_task(progress, "MergeJson", SchemaOrder[proc.k],
                                Len(proc.shards[proc.k])) IN
        /\ progress' = made.table
        /\ proc' = [proc EXCEPT !.pc = "load", !.j = 1, !.task = made.task_id]
     \/ /\ progress' = progress
        /\ proc' = TaskFail
  /\ UNCHANGED <<db, registry, seqvars, scanvars, unitvars, unit>>

\* new_from_archive: one file read, parsed and counted; after the last one
\* from_json, and process_schema's test of grouped_json.0.len()
TaskLoad ==
  /\ proc.pc = "load"
  /\ LET files == proc.shards[proc.k] IN
     IF proc.j <= Len(files)
       THEN \/ /\ progress' = increment(progress, proc.task, 1)
               /\ proc' = [proc EXCEPT !.j = @ + 1]
            \/ /\ progress' = progress
               /\ proc' = TaskFail
       ELSE LET grouped == from_json(merge_json(files, 1), 1, <<>>) IN
            /\ progress' = progress
            /\ proc' = IF grouped.tag # "Ok"
                         THEN [proc EXCEPT !.pc = "returned", !.result = "Panic"]
                       ELSE IF DOMAIN grouped.val = {}
                         THEN [proc EXCEPT !.k = @ + 1, !.pc = "merge"]
                       ELSE [proc EXCEPT !.grouped = Cardinality(DOMAIN grouped.val),
                                         !.pc = "insert"]
  /\ UNCHANGED <<db, registry, seqvars, scanvars, unitvars, unit>>

\* process_schema: DictionaryDB::new, whose error is logged and not
\* returned; insert_all: the DbInsertAll task, whose total is the number of
\* keys
TaskInsert ==
  /\ proc.pc = "insert"
  /\ \/ LET made == create_task(progress, "DbInsertAll", SchemaOrder[proc.k],
                                proc.grouped) IN
        /\ progress' = made.table
        /\ proc' = [proc EXCEPT !.pc = "batch", !.j = 0, !.task = made.task_id]
     \/ /\ progress' = progress
        /\ proc' = [proc EXCEPT !.k = @ + 1, !.pc = "merge"]
     \/ /\ progress' = progress
        /\ proc' = TaskFail
  /\ UNCHANGED <<db, registry, seqvars, scanvars, unitvars, unit>>

\* insert_all with an increment by BATCH_SIZE for every batch, the last
\* one included
TaskBatch_counts_full_batches ==
  /\ proc.pc = "batch"
  /\ LET rest == proc.grouped - proc.j
         len == IF rest >= BATCH_SIZE THEN BATCH_SIZE ELSE rest IN
     IF rest > 0
       THEN \/ /\ progress' = increment(progress, proc.task, BATCH_SIZE)
               /\ proc' = [proc EXCEPT !.j = @ + len]
            \/ /\ progress' = progress
               /\ proc' = TaskFail
       ELSE \/ /\ progress' = progress
               /\ proc' = [proc EXCEPT !.k = @ + 1, !.pc = "merge"]
            \/ /\ progress' = progress
               /\ proc' = TaskFail
  /\ UNCHANGED <<db, registry, seqvars, scanvars, unitvars, unit>>

\* insert_all: insert_batch and increment by the length of the batch, for
\* the full batches and for the rest; then tx.commit()
TaskBatch ==
  /\ proc.pc = "batch"
  /\ LET rest == proc.grouped - proc.j
         len == IF rest >= BATCH_SIZE THEN BATCH_SIZE ELSE rest IN
     IF rest > 0
       THEN \/ /\ progress' = increment(progress, proc.task, len)
               /\ proc' = [proc EXCEPT !.j = @ + len]
            \/ /\ progress' = progress
               /\ proc' = TaskFail
       ELSE \/ /\ progress' = progress
               /\ proc' = [proc EXCEPT !.k = @ + 1, !.pc = "merge"]
            \/ /\ progress' = progress
               /\ proc' = TaskFail
  /\ UNCHANGED <<db, registry, seqvars, scanvars, unitvars, unit>>

\* copy_static_assets: nothing when static/<filename> exists; else the
\* CopyStaticAssets task, whose total is the number of files that are
\* neither directories nor .json
TaskCopy ==
  /\ proc.pc = "merge"
  /\ proc.k > Len(SchemaOrder)
  /\ IF proc.static_exists
       THEN /\ progress' = progress
            /\ proc' = [proc EXCEPT !.pc = "returned", !.result = "Ok"]
       ELSE \/ LET made == create_task(progress, "CopyStaticAssets", "",
                                       proc.assets) IN
               /\ progress' = made.table
               /\ proc' = [proc EXCEPT !.pc = "copy", !.j = 0,
                                       !.task = made.task_id]
            \/ /\ progress' = progress
               /\ proc' = TaskFail
  /\ UNCHANGED <<db, registry, seqvars, scanvars, unitvars, unit>>

\* copy_static_assets: one file copied and counted; after the last one
\* process_archive returns Ok
TaskCopyFile ==
  /\ proc.pc = "copy"
  /\ IF proc.j < proc.assets
       THEN \/ /\ progress' = increment(progress, proc.task, 1)
               /\ proc' = [proc EXCEPT !.j = @ + 1]
            \/ /\ progress' = progress
               /\ proc' = TaskFail
       ELSE /\ progress' = progress
            /\ proc' = [proc EXCEPT !.pc = "returned", !.result = "Ok"]
  /\ UNCHANGED <<db, registry, seqvars, scanvars, unitvars, unit>>

TaskNext ==
  TaskMerge \/ TaskLoad \/ TaskInsert \/ TaskBatch \/ TaskCopy \/ TaskCopyFile

TaskSpec == TaskInit /\ [][TaskNext]_vars

(***************************************************************************)
(* Progress specification: callers that create and increment tasks on one  *)
(* ProgressStateTable while another waits in wait_for_completion           *)
(* (kv_store/utils.rs).  Time is counted in sleeps of 100 ms.              *)
(***************************************************************************)
MaxIncrements == 1   \* at most this many increment calls per caller
MaxTimeout == 1      \* timeout_secs is at most this

Workers == {"w1", "w2"}

\* the totals tasks are created with, and the amounts of increment
Totals == {0, 2}
Amounts == {1, 2}

\* Duration::from_secs(1) in sleeps of Duration::from_millis(100)
TicksPerSec == 1000 \div 100

\* given and sent record what the callers asked for: the total each task
\* was created with and the sum of the amounts incremented on it.  The
\* waiter holds start (Instant::now() at the call), the timeout in sleeps,
\* the time its sleep ends, and the row its last poll read
ProgressInit ==
  /\ db = <<>>
  /\ registry = EmptyRegistry
  /\ request = None
  /\ outcome = None
  /\ scan = <<>>
  /\ look = <<>>
  /\ lock = <<>>
  /\ yomitan = <<>>
  /\ call = None
  /\ ingest = <<>>
  /\ unit = <<>>
  /\ progress = <<>>
  /\ \E task \in 1..Cardinality(Workers), timeout_secs \in {0, MaxTimeout} :
       proc = [worker |-> [w \in Workers |-> [pc |-> "create", left |-> MaxIncrements]],
               given |-> <<>>, sent |-> <<>>, now |-> 0,
               waiter |-> [pc |-> "poll", task |-> task, start |-> 0,
                           timeout |-> timeout_secs * TicksPerSec, wake |-> 0,
                           seen |-> None, result |-> "Running"]]

\* a caller creates a task
WorkCreate(w) ==
  /\ proc.worker[w].pc = "create"
  /\ \E total \in Totals :
       LET made == create_task(progress, "DbInsertAll", "", total) IN
       /\ progress' = made.table
       /\ proc' = [proc EXCEPT !.worker[w].pc = "increment",
                               !.given = Append(@, total), !.sent = Append(@, 0)]
  /\ UNCHANGED <<db, registry, seqvars, scanvars, unitvars, unit>>

\* a caller increments a task of the table, its own or another's
WorkIncrement(w) ==
  /\ proc.worker[w].pc = "increment"
  /\ proc.worker[w].left > 0
  /\ \E task_id \in 1..Len(proc.given), amount \in Amounts :
       /\ progress' = increment(progress, task_id, amount)
       /\ proc' = [proc EXCEPT !.worker[w].left = @ - 1,
                               !.sent[task_id] = @ + amount]
  /\ UNCHANGED <<db, registry, seqvars, scanvars, unitvars, unit>>

\* wait_for_completion, the condition of the while loop: is_task_complete,
\* whose error is returned
WaitPoll ==
  /\ proc.waiter.pc = "poll"
  /\ LET complete == is_task_complete(progress, proc.waiter.task)
         data == get_progress(progress, proc.waiter.task) IN
     proc' = IF complete.tag # "Ok"
               THEN [proc EXCEPT !.waiter.pc = "returned", !.waiter.result = "Err"]
             ELSE IF complete.val
               THEN [proc EXCEPT !.waiter.pc = "returned", !.waiter.result = "true",
                                 !.waiter.seen = Some(data.val)]
             ELSE [proc EXCEPT !.waiter.pc = "elapsed",
                               !.waiter.seen = Some(data.val)]
  /\ UNCHANGED <<db, registry, seqvars, scanvars, unitvars, progress, unit>>

\* wait_for_completion, the body of the loop: start.elapsed() > timeout
\* returns false, else sleep(100 ms).  A whole number of sleeps equal to
\* the timeout can be a longer time than the timeout or not.
WaitElapsed ==
  /\ proc.waiter.pc = "elapsed"
  /\ LET elapsed == proc.now - proc.waiter.start IN
     \/ /\ elapsed >= proc.waiter.timeout
        /\ proc' = [proc EXCEPT !.waiter.pc = "returned", !.waiter.result = "false"]
     \/ /\ elapsed <= proc.waiter.timeout
        /\ proc' = [proc EXCEPT !.waiter.pc = "sleep", !.waiter.wake = proc.now + 1]
  /\ UNCHANGED <<db, registry, seqvars, scanvars, unitvars, progress, unit>>

\* the sleep is over
WaitWake ==
  /\ proc.waiter.pc = "sleep"
  /\ proc.now >= proc.waiter.wake
  /\ proc' = [proc EXCEPT !.waiter.pc = "poll"]
  /\ UNCHANGED <<db, registry, seqvars, scanvars, unitvars, progress, unit>>

\* 100 ms pass; the clock is followed until the wait has returned or its
\* timeout has elapsed
Tick ==
  /\ proc.waiter.pc # "returned"
  /\ proc.now <= proc.waiter.start + proc.waiter.timeout
  /\ proc' = [proc EXCEPT !.now = @ + 1]
  /\ UNCHANGED <<db, registry, seqvars, scanvars, unitvars, progress, unit>>

ProgressNext ==
  \/ \E w \in Workers : WorkCreate(w) \/ WorkIncrement(w)
  \/ WaitPoll \/ WaitElapsed \/ WaitWake \/ Tick

ProgressSpec == ProgressInit /\ [][ProgressNext]_vars

\* time passes and the runtime runs the waiting caller
ProgressFair ==
  /\ ProgressSpec
  /\ WF_vars(Tick) /\ WF_vars(WaitPoll) /\ WF_vars(WaitElapsed) /\ WF_vars(WaitWake)

(***************************************************************************)
(* Load specification: YomitanDictionaries::new (dictionaries.rs) over the *)
(* entries of a db root, one turn of its loop at a time                    *)
(***************************************************************************)
LoadNames == <<"x", "y", "z">>

\* what an entry of the db root can be: a file, or a directory holding a
\* Term, Pitch, Frequency or Kanji dictionary, an index.json and no store,
\* a term-meta store of IPA entries, a term-meta store whose first row is
\* an empty list, or nothing at all
LoadKinds ==
  {"file", "term", "pitch", "freq", "kanji", "no_rows", "ipa", "empty_row",
   "no_index"}

\* the directory of a kind
LoadDir(name, kind) ==
  LET meta(entries) == Some(Store(<<Row(W_da_kanji, entries)>>))
      dir(term, term_meta, kanji) ==
        ClassDir(<<name>>, <<"1">>, term, term_meta, kanji, None) IN
  CASE kind = "file" -> None
    [] kind = "term" ->
         dir(Some(Store(<<Row(W_da_kanji, <<TermE(W_da_kanji, W_da)>>)>>)),
             None, None)
    [] kind = "pitch" -> dir(None, meta(<<PitchE(W_da_kanji, W_da, <<1>>)>>), None)
    [] kind = "freq" -> dir(None, meta(<<FreqE(W_da_kanji, None, Some(1))>>), None)
    [] kind = "kanji" ->
         dir(None, None, Some(Store(<<Row(W_da_kanji, <<KanjiE(W_da_kanji)>>)>>)))
    [] kind = "no_rows" -> dir(None, None, None)
    [] kind = "ipa" -> dir(None, meta(<<IpaE(W_da_kanji)>>), None)
    [] kind = "empty_row" -> dir(None, meta(<<>>), None)
    [] kind = "no_index" -> Some(EmptyDir)

\* the type identify_dictionary_type gives a directory of the kind
KindType(kind) ==
  CASE kind = "term" -> Some("Term")
    [] kind = "pitch" -> Some("Pitch")
    [] kind = "freq" -> Some("Frequency")
    [] kind = "kanji" -> Some("Kanji")
    [] OTHER -> None

\* kinds: what each entry of the root is; reg: the four vectors being
\* filled
LoadInit ==
  /\ registry = EmptyRegistry
  /\ request = None
  /\ outcome = None
  /\ scan = <<>>
  /\ look = <<>>
  /\ lock = <<>>
  /\ yomitan = <<>>
  /\ call = None
  /\ ingest = <<>>
  /\ progress = <<>>
  /\ unit = <<>>
  /\ \E kinds \in [1..Len(LoadNames) -> LoadKinds] :
       /\ db = [n \in {LoadNames[i] : i \in 1..Len(LoadNames)} |->
                  LET i == CHOOSE i \in 1..Len(LoadNames) : LoadNames[i] = n IN
                  LoadDir(n, kinds[i])]
       /\ proc = [pc |-> "entry", i |-> 1, kinds |-> kinds,
                  reg |-> EmptyRegistry, result |-> "Running"]

\* one turn of the loop over read_dir: an entry that is no directory is
\* passed over; YomitanDictionary::new(..)? ends the load on an error; a
\* dictionary is pushed on the vector of its type, or passed over when
\* identify_dictionary_type returns an error
LoadEntry ==
  /\ proc.pc = "entry"
  /\ proc.i <= Len(LoadNames)
  /\ LET name == LoadNames[proc.i]
         opened == YomitanDictionary_new(name)
         dict_type == identify_dictionary_type(opened.val) IN
     proc' = IF proc.kinds[proc.i] = "file" THEN [proc EXCEPT !.i = @ + 1]
             ELSE IF opened.tag # "Ok"
               THEN [proc EXCEPT !.pc = "returned", !.result = "Err"]
             ELSE IF dict_type.tag = "Panic"
               THEN [proc EXCEPT !.pc = "returned", !.result = "Panic"]
             ELSE IF dict_type.tag = "Err" THEN [proc EXCEPT !.i = @ + 1]
             ELSE [proc EXCEPT !.i = @ + 1,
                               !.reg[BucketOf(dict_type.val)] = Append(@, opened.val)]
  /\ UNCHANGED <<db, registry, seqvars, scanvars, unitvars, progress, unit>>

\* after the loop: Ok(YomitanDictionaries { terms, freq, pitch, kanji })
LoadReturn ==
  /\ proc.pc = "entry"
  /\ proc.i > Len(LoadNames)
  /\ proc' = [proc EXCEPT !.pc = "returned", !.result = "Ok"]
  /\ registry' = proc.reg
  /\ UNCHANGED <<db, seqvars, scanvars, unitvars, progress, unit>>

LoadNext == LoadEntry \/ LoadReturn

LoadSpec == LoadInit /\ [][LoadNext]_vars

(***************************************************************************)
(* Token specification: mecab.rs analyze_tokens applied to the tokens the  *)
(* tokenizer found in a text and a character position                      *)
(***************************************************************************)
MaxMorphs == 3    \* at most this many tokens in the text

Star == <<42>>                      \* "*"
POS_shi == <<35422>>                \* "詞"
POS_verb == <<21205, 35422>>        \* "動詞"
POS_noun == <<21517, 35422>>        \* "名詞"
POS_particle == <<21161, 35422>>    \* "助詞"

\* str::len of a char: the length of its UTF-8 encoding
len_utf8(c) == IF c < 128 THEN 1 ELSE IF c < 2048 THEN 2 ELSE IF c < 65536 THEN 3 ELSE 4

RECURSIVE str_len(_)
\* str::len: the length in bytes
str_len(s) == IF s = <<>> THEN 0 ELSE len_utf8(Head(s)) + str_len(Tail(s))

\* a token of the tokenizer: its surface and its feature string, split at
\* the commas
Morph(surface, fields) == [surface |-> surface, fields |-> fields]

\* a feature string of n fields, with the part of speech first and the
\* dictionary form seventh
Fields(pos, dictionary_form, n) ==
  [k \in 1..n |-> IF k = 1 THEN pos ELSE IF k = 7 THEN dictionary_form ELSE Star]

Surfaces == {<<25171>>, <<97, 98>>}    \* "打" (3 bytes), "ab" (2 bytes)

Morphs ==
  {Morph(surface, Fields(pos, dictionary_form, 9)) :
     surface \in Surfaces, pos \in {POS_shi, POS_verb, POS_noun, POS_particle},
     dictionary_form \in {Star, <<120>>}}
  \cup {Morph(<<25171>>, Fields(POS_noun, Star, 6)),
        Morph(<<25171>>, Fields(POS_noun, <<120>>, 10))}

\* TokenFeature::from_feature_string: "*" is None, missing fields are None,
\* and a tenth field is written past the end of the nine
from_feature_string(surface_form, fields) ==
  LET padded(i) == IF i > Len(fields) \/ fields[i] = Star THEN None
                   ELSE Some(fields[i]) IN
  IF Len(fields) > 9 THEN Panic
  ELSE Ok([surface_form |-> Some(surface_form), pos |-> padded(1),
           dictionary_form |-> padded(7)])

\* Option::unwrap_or
unwrap_or(o, default) == IF IsSome(o) THEN Unwrap(o) ELSE default

RECURSIVE noun_compounds(_, _, _, _)
\* the while loop over the nouns that follow a noun: each one lengthens the
\* compound, which is pushed
noun_compounds(tokens, j, compound_surface, feature) ==
  IF j > Len(tokens) THEN Ok(<<>>)
  ELSE LET next_feature == from_feature_string(tokens[j].surface, tokens[j].fields) IN
    IF next_feature.tag # "Ok" THEN Panic
    ELSE IF next_feature.val.pos # Some(POS_noun) THEN Ok(<<>>)
    ELSE LET surface == compound_surface \o tokens[j].surface
             rest == noun_compounds(tokens, j + 1, surface, feature) IN
      IF rest.tag # "Ok" THEN Panic
      ELSE Ok(<<[feature EXCEPT !.surface_form = Some(surface),
                                !.dictionary_form = Some(surface)]>> \o rest.val)

\* candidates without the compounds: the token itself only
candidates_base_only(tokens, i) ==
  LET made == from_feature_string(tokens[i].surface, tokens[i].fields) IN
  IF made.tag # "Ok" THEN Panic ELSE Ok(<<made.val>>)

\* the candidates of the token at i: the compound of a "詞" and the verb
\* after it, or the compounds of a noun and the nouns after it, and then
\* the token itself
candidates(tokens, i) ==
  LET token == tokens[i]
      made == from_feature_string(token.surface, token.fields) IN
  IF made.tag # "Ok" THEN Panic
  ELSE LET feature == made.val IN
    IF feature.pos = Some(POS_shi) THEN
      IF i + 1 <= Len(tokens) THEN
        LET next_token == tokens[i + 1]
            next_made == from_feature_string(next_token.surface, next_token.fields) IN
        IF next_made.tag # "Ok" THEN Panic
        ELSE IF next_made.val.pos = Some(POS_verb) THEN
          Ok(<<[feature EXCEPT
                  !.surface_form = Some(token.surface \o next_token.surface),
                  !.dictionary_form =
                     Some(unwrap_or(feature.dictionary_form, token.surface)
                          \o unwrap_or(next_made.val.dictionary_form,
                                       next_token.surface))],
               feature>>)
        ELSE Ok(<<feature>>)
      ELSE Ok(<<feature>>)
    ELSE IF feature.pos = Some(POS_noun) THEN
      LET compounds == noun_compounds(tokens, i + 1, token.surface, feature) IN
      IF compounds.tag # "Ok" THEN Panic ELSE Ok(compounds.val \o <<feature>>)
    ELSE Ok(<<feature>>)

RECURSIVE start_char(_, _)
\* text[..token.range_byte().start].chars().count()
start_char(tokens, i) ==
  IF i = 1 THEN 0 ELSE start_char(tokens, i - 1) + Len(tokens[i - 1].surface)

RECURSIVE entries_from(_, _, _)
\* the loop over the tokens: the candidates of every token whose range of
\* characters holds the position
entries_from(tokens, position, i) ==
  IF i > Len(tokens) THEN Ok(<<>>)
  ELSE LET start == start_char(tokens, i)
           end == start + Len(tokens[i].surface)
           here == IF start <= position /\ position < end
                     THEN candidates(tokens, i) ELSE Ok(<<>>) IN
    IF here.tag # "Ok" THEN Panic
    ELSE LET rest == entries_from(tokens, position, i + 1) IN
      IF rest.tag # "Ok" THEN Panic ELSE Ok(here.val \o rest.val)

\* the key of the sort: the length in bytes of the surface form
surface_len(entry) ==
  IF IsSome(entry.surface_form) THEN str_len(Unwrap(entry.surface_form)) ELSE 0

RECURSIVE sort_by_key_reverse(_)
\* Vec::sort_by_key with Reverse(key): stable, greatest key first
sort_by_key_reverse(entries) ==
  IF entries = <<>> THEN <<>>
  ELSE LET sorted == sort_by_key_reverse(Tail(entries))
           first == Head(entries)
           after == {k \in 1..Len(sorted) : surface_len(sorted[k]) > surface_len(first)}
           n == Cardinality(after) IN
    SubSeq(sorted, 1, n) \o <<first>> \o SubSeq(sorted, n + 1, Len(sorted))

\* analyze_tokens without its sort
analyze_tokens_unsorted(tokens, position) == entries_from(tokens, position, 1)

\* analyze_tokens
analyze_tokens(tokens, position) ==
  LET entries == entries_from(tokens, position, 1) IN
  IF entries.tag # "Ok" THEN Panic ELSE Ok(sort_by_key_reverse(entries.val))

TokenInit ==
  /\ db = <<>>
  /\ registry = EmptyRegistry
  /\ request = None
  /\ outcome = None
  /\ scan = <<>>
  /\ look = <<>>
  /\ lock = <<>>
  /\ yomitan = <<>>
  /\ call = None
  /\ ingest = <<>>
  /\ progress = <<>>
  /\ proc = <<>>
  /\ \E tokens \in SeqsUpTo(Morphs, MaxMorphs) :
       \E position \in 0..start_char(tokens, Len(tokens) + 1) :
         unit = [pc |-> "call", tokens |-> tokens, position |-> position,
                 result |-> None]

\* the call of analyze_tokens
Analyze ==
  /\ unit.pc = "call"
  /\ unit' = [unit EXCEPT !.pc = "returned",
                          !.result = Some(analyze_tokens(unit.tokens, unit.position))]
  /\ UNCHANGED <<db, registry, seqvars, scanvars, unitvars, progress, proc>>

TokenNext == Analyze

TokenSpec == TokenInit /\ [][TokenNext]_vars

(***************************************************************************)
(* JSON values (serde_json::Value): every value is a record of one shape,  *)
(* a string is its sequence of code points, a number is an integer, an    *)
(* object is its keys with the member values in the same positions.        *)
(***************************************************************************)
JNull == [type |-> "null", str |-> <<>>, num |-> 0, keys |-> <<>>, items |-> <<>>]
JStr(s) == [type |-> "string", str |-> s, num |-> 0, keys |-> <<>>, items |-> <<>>]
JNum(n) == [type |-> "number", str |-> <<>>, num |-> n, keys |-> <<>>, items |-> <<>>]
JArr(items) == [type |-> "array", str |-> <<>>, num |-> 0, keys |-> <<>>, items |-> items]
JObj(keys, items) == [type |-> "object", str |-> <<>>, num |-> 0, keys |-> keys, items |-> items]

\* the strings "打", "だ", "n", "abbr", "E1", "P", "freq", "pitch", "ipa"
S_da == <<25171>>
S_da_reading == <<12384>>
S_n == <<110>>
S_abbr == <<97, 98, 98, 114>>
S_E1 == <<69, 49>>
S_P == <<80>>
S_freq == <<102, 114, 101, 113>>
S_pitch == <<112, 105, 116, 99, 104>>
S_ipa == <<105, 112, 97>>

\* the member of an object under a key, None when the key is missing
member(json, key) ==
  IF \E i \in 1..Len(json.keys) : json.keys[i] = key
  THEN Some(json.items[CHOOSE i \in 1..Len(json.keys) : json.keys[i] = key])
  ELSE None

\* an Option field read from a map: a missing member and null are both None
option_value(o) == IF IsSome(o) /\ Unwrap(o).type # "null" THEN o ELSE None

\* Option<T> written by the derived Serialize: None is null
option_json(o) == IF IsSome(o) THEN Unwrap(o) ELSE JNull

is_string_array(json) ==
  json.type = "array" /\ \A i \in 1..Len(json.items) : json.items[i].type = "string"

strings_of(json) == [i \in 1..Len(json.items) |-> json.items[i].str]

strings_json(list) == JArr([i \in 1..Len(list) |-> JStr(list[i])])

(***************************************************************************)
(* Term bank entries (term_bank_v3.rs)                                     *)
(***************************************************************************)
\* char::is_whitespace: the code points with the White_Space property
is_whitespace(c) ==
  \/ c \in 9..13
  \/ c \in {32, 133, 160, 5760, 8232, 8233, 8239, 8287, 12288}
  \/ c \in 8192..8202

RECURSIVE split_from(_, _, _, _)
split_from(s, i, cur, acc) ==
  IF i > Len(s)
  THEN IF cur = <<>> THEN acc ELSE Append(acc, cur)
  ELSE IF is_whitespace(s[i])
       THEN split_from(s, i + 1, <<>>, IF cur = <<>> THEN acc ELSE Append(acc, cur))
       ELSE split_from(s, i + 1, Append(cur, s[i]), acc)

split_whitespace(s) == split_from(s, 1, <<>>, <<>>)

\* deserialize_string_separated without the is_empty test
deserialize_string_separated_keeps_empty(json) ==
  IF json.type = "null" THEN Ok(None)
  ELSE IF json.type # "string" THEN Err
  ELSE Ok(Some(split_whitespace(json.str)))

\* deserialize_option: null is visit_none; anything else is visit_some, which
\* reads a String and fails on any other type
deserialize_string_separated(json) ==
  IF json.type = "null" THEN Ok(None)
  ELSE IF json.type # "string" THEN Err
  ELSE IF json.str = <<>> THEN Ok(None)
  ELSE Ok(Some(split_whitespace(json.str)))

\* a struct is read from a map by field name (unknown members are ignored)
\* or from a sequence by position (every field present, nothing after)
StructuredDefinition_deserialize(json) ==
  IF json.type = "object"
  THEN LET t == member(json, "type")
           c == option_value(member(json, "content"))
           a == option_value(member(json, "attributes"))
       IN IF /\ IsSome(t) /\ Unwrap(t).type = "string"
             /\ IsSome(a) => Unwrap(a).type = "object"
          THEN Ok([def_type |-> Unwrap(t).str, content |-> c, attributes |-> a])
          ELSE Err
  ELSE IF json.type = "array" /\ Len(json.items) = 3
  THEN LET c == option_value(Some(json.items[2]))
           a == option_value(Some(json.items[3]))
       IN IF /\ json.items[1].type = "string"
             /\ IsSome(a) => Unwrap(a).type = "object"
          THEN Ok([def_type |-> json.items[1].str, content |-> c, attributes |-> a])
          ELSE Err
  ELSE Err

DeinflectionDefinition_deserialize(json) ==
  IF json.type = "object"
  THEN LET b == member(json, "base_form")
           f == member(json, "inflections")
       IN IF /\ IsSome(b) /\ Unwrap(b).type = "string"
             /\ IsSome(f) /\ is_string_array(Unwrap(f))
          THEN Ok([base_form |-> Unwrap(b).str, inflections |-> strings_of(Unwrap(f))])
          ELSE Err
  ELSE IF json.type = "array" /\ Len(json.items) = 2
  THEN IF json.items[1].type = "string" /\ is_string_array(json.items[2])
       THEN Ok([base_form |-> json.items[1].str, inflections |-> strings_of(json.items[2])])
       ELSE Err
  ELSE Err

\* untagged: the first variant that reads the value
Definition_deserialize(json) ==
  IF json.type = "string"
  THEN Ok([variant |-> "Simple", val |-> json.str])
  ELSE IF StructuredDefinition_deserialize(json).tag = "Ok"
  THEN Ok([variant |-> "Structured", val |-> StructuredDefinition_deserialize(json).val])
  ELSE IF DeinflectionDefinition_deserialize(json).tag = "Ok"
  THEN Ok([variant |-> "Deinflection", val |-> DeinflectionDefinition_deserialize(json).val])
  ELSE Err

\* untagged: the value of the variant, a struct as a map of its fields
Definition_serialize(d) ==
  IF d.variant = "Simple" THEN JStr(d.val)
  ELSE IF d.variant = "Structured"
  THEN JObj(<<"type", "content", "attributes">>,
            <<JStr(d.val.def_type), option_json(d.val.content),
              option_json(d.val.attributes)>>)
  ELSE JObj(<<"base_form", "inflections">>,
            <<JStr(d.val.base_form), strings_json(d.val.inflections)>>)

\* the derived Deserialize of TermEntry on an entry of a shard, a sequence:
\* the eight fields in declaration order
TermEntry_deserialize(json) ==
  IF json.type # "array" \/ Len(json.items) # 8 THEN Err
  ELSE LET f == json.items
           tags == deserialize_string_separated(f[3])
           term_tags == deserialize_string_separated(f[8])
           definitions == [i \in 1..Len(f[6].items) |-> Definition_deserialize(f[6].items[i])]
       IN IF /\ f[1].type = "string" /\ f[2].type = "string"
             /\ tags.tag = "Ok"
             /\ f[4].type = "string" /\ f[5].type = "number"
             /\ f[6].type = "array"
             /\ \A i \in 1..Len(definitions) : definitions[i].tag = "Ok"
             /\ f[7].type = "number"
             /\ term_tags.tag = "Ok"
          THEN Ok([text |-> f[1].str, reading |-> f[2].str, tags |-> tags.val,
                   rule_identifiers |-> f[4].str, score |-> f[5].num,
                   definitions |-> [i \in 1..Len(definitions) |-> definitions[i].val],
                   sequence_number |-> f[7].num, term_tags |-> term_tags.val])
          ELSE Err

tags_json(o) == IF IsSome(o) THEN strings_json(Unwrap(o)) ELSE JNull

\* the derived Serialize of TermEntry: a map of the eight field names
TermEntry_serialize(e) ==
  JObj(<<"text", "reading", "tags", "rule_identifiers", "score", "definitions",
         "sequence_number", "term_tags">>,
       <<JStr(e.text), JStr(e.reading), tags_json(e.tags), JStr(e.rule_identifiers),
         JNum(e.score),
         JArr([i \in 1..Len(e.definitions) |-> Definition_serialize(e.definitions[i])]),
         JNum(e.sequence_number), tags_json(e.term_tags)>>)

(***************************************************************************)
(* Term meta bank entries (term_meta_bank_v3.rs)                           *)
(***************************************************************************)
\* Option<String> read from a map
option_string(o) ==
  IF ~IsSome(option_value(o)) THEN Ok(None)
  ELSE IF Unwrap(o).type = "string" THEN Ok(Some(Unwrap(o).str)) ELSE Err

\* Option<f64> read from a map
option_number(o) ==
  IF ~IsSome(option_value(o)) THEN Ok(None)
  ELSE IF Unwrap(o).type = "number" THEN Ok(Some(Unwrap(o).num)) ELSE Err

\* rename_all = "camelCase"; every field is an Option
FrequencyDetails_deserialize(json) ==
  IF json.type # "object" THEN Err
  ELSE LET value == option_number(member(json, "value"))
           display_value == option_string(member(json, "displayValue"))
           reading == option_string(member(json, "reading"))
       IN IF value.tag = "Ok" /\ display_value.tag = "Ok" /\ reading.tag = "Ok"
          THEN Ok([value |-> value.val, display_value |-> display_value.val,
                   reading |-> reading.val,
                   frequency |-> option_value(member(json, "frequency"))])
          ELSE Err

\* untagged: the first variant that reads the value
FrequencyData_deserialize(json) ==
  IF json.type = "number" THEN Ok([variant |-> "SimpleNumber", val |-> json.num])
  ELSE IF json.type = "string" THEN Ok([variant |-> "SimpleString", val |-> json.str])
  ELSE IF FrequencyDetails_deserialize(json).tag = "Ok"
  THEN Ok([variant |-> "Detailed", val |-> FrequencyDetails_deserialize(json).val])
  ELSE Err

FrequencyData_serialize(d) ==
  IF d.variant = "SimpleNumber" THEN JNum(d.val)
  ELSE IF d.variant = "SimpleString" THEN JStr(d.val)
  ELSE JObj(<<"value", "displayValue", "reading", "frequency">>,
            <<IF IsSome(d.val.value) THEN JNum(Unwrap(d.val.value)) ELSE JNull,
              IF IsSome(d.val.display_value) THEN JStr(Unwrap(d.val.display_value)) ELSE JNull,
              IF IsSome(d.val.reading) THEN JStr(Unwrap(d.val.reading)) ELSE JNull,
              option_json(d.val.frequency)>>)

PitchInfo_deserialize(json) ==
  IF json.type # "object" THEN Err
  ELSE LET position == member(json, "position")
           tags == option_value(member(json, "tags"))
       IN IF /\ IsSome(position) /\ Unwrap(position).type = "number"
             /\ IsSome(tags) => is_string_array(Unwrap(tags))
          THEN Ok([position |-> Unwrap(position).num,
                   nasal |-> option_value(member(json, "nasal")),
                   devoice |-> option_value(member(json, "devoice")),
                   tags |-> IF IsSome(tags) THEN Some(strings_of(Unwrap(tags))) ELSE None])
          ELSE Err

PitchInfo_serialize(p) ==
  JObj(<<"position", "nasal", "devoice", "tags">>,
       <<JNum(p.position), option_json(p.nasal), option_json(p.devoice), tags_json(p.tags)>>)

PitchData_deserialize(json) ==
  IF json.type # "object" THEN Err
  ELSE LET reading == member(json, "reading")
           pitches == member(json, "pitches")
       IN IF /\ IsSome(reading) /\ Unwrap(reading).type = "string"
             /\ IsSome(pitches) /\ Unwrap(pitches).type = "array"
             /\ \A i \in 1..Len(Unwrap(pitches).items) :
                  PitchInfo_deserialize(Unwrap(pitches).items[i]).tag = "Ok"
          THEN Ok([reading |-> Unwrap(reading).str,
                   pitches |-> [i \in 1..Len(Unwrap(pitches).items) |->
                                  PitchInfo_deserialize(Unwrap(pitches).items[i]).val]])
          ELSE Err

PitchData_serialize(d) ==
  JObj(<<"reading", "pitches">>,
       <<JStr(d.reading),
         JArr([i \in 1..Len(d.pitches) |-> PitchInfo_serialize(d.pitches[i])])>>)

IPATranscription_deserialize(json) ==
  IF json.type # "object" THEN Err
  ELSE LET ipa == member(json, "ipa")
           tags == member(json, "tags")
       IN IF /\ IsSome(ipa) /\ Unwrap(ipa).type = "string"
             /\ IsSome(tags) /\ is_string_array(Unwrap(tags))
          THEN Ok([ipa |-> Unwrap(ipa).str, tags |-> strings_of(Unwrap(tags))])
          ELSE Err

IPAData_deserialize(json) ==
  IF json.type # "object" THEN Err
  ELSE LET reading == member(json, "reading")
           transcriptions == member(json, "transcriptions")
       IN IF /\ IsSome(reading) /\ Unwrap(reading).type = "string"
             /\ IsSome(transcriptions) /\ Unwrap(transcriptions).type = "array"
             /\ \A i \in 1..Len(Unwrap(transcriptions).items) :
                  IPATranscription_deserialize(Unwrap(transcriptions).items[i]).tag = "Ok"
          THEN Ok([reading |-> Unwrap(reading).str,
                   transcriptions |-> [i \in 1..Len(Unwrap(transcriptions).items) |->
                     IPATranscription_deserialize(Unwrap(transcriptions).items[i]).val]])
          ELSE Err

IPAData_serialize(d) ==
  JObj(<<"reading", "transcriptions">>,
       <<JStr(d.reading),
         JArr([i \in 1..Len(d.transcriptions) |->
                 JObj(<<"ipa", "tags">>,
                      <<JStr(d.transcriptions[i].ipa),
                        strings_json(d.transcriptions[i].tags)>>)])>>)

\* the hand-written visit_seq: term, entry type, then the data the type names;
\* an unknown type is an error, and so is an element after the third
TermMetaEntry_deserialize(json) ==
  IF json.type # "array" \/ Len(json.items) # 3 THEN Err
  ELSE LET f == json.items
           data == IF f[2].type # "string" THEN Err
                   ELSE IF f[2].str = S_freq
                   THEN FrequencyData_deserialize(f[3])
                   ELSE IF f[2].str = S_pitch
                   THEN PitchData_deserialize(f[3])
                   ELSE IF f[2].str = S_ipa
                   THEN IPAData_deserialize(f[3])
                   ELSE Err
           variant == IF f[2].str = S_freq THEN "Frequency"
                      ELSE IF f[2].str = S_pitch THEN "Pitch"
                      ELSE "Ipa"
       IN IF f[1].type = "string" /\ data.tag = "Ok"
          THEN Ok([term |-> f[1].str, entry_type |-> f[2].str,
                   data |-> [variant |-> variant, val |-> data.val]])
          ELSE Err

\* the derived Serialize of TermMetaData: the variant name as the only key
TermMetaData_serialize(d) ==
  JObj(<<d.variant>>,
       <<IF d.variant = "Frequency" THEN FrequencyData_serialize(d.val)
         ELSE IF d.variant = "Pitch" THEN PitchData_serialize(d.val)
         ELSE IPAData_serialize(d.val)>>)

\* the derived Serialize of TermMetaEntry: a map of the three field names
TermMetaEntry_serialize(e) ==
  JObj(<<"term", "entry_type", "data">>,
       <<JStr(e.term), JStr(e.entry_type), TermMetaData_serialize(e.data)>>)

(***************************************************************************)
(* Codec specification: one entry of a term bank or term meta bank shard   *)
(* is decoded (serde_json::from_str into TermEntry / TermMetaEntry) and    *)
(* the decoded value is encoded again (serde_json::to_value).              *)
(***************************************************************************)

\* the tag strings: "", "n", "n abbr", "E1 P", " ", "n<TAB>P" and
\* " n<U+3000>P "
TagStrings ==
  { <<>>, S_n, S_n \o <<32>> \o S_abbr, S_E1 \o <<32>> \o S_P, <<32>>,
    S_n \o <<9>> \o S_P, <<32>> \o S_n \o <<12288>> \o S_P \o <<32>> }

TagJsons == {JNull, JNum(1)} \cup {JStr(s) : s \in TagStrings}

DefinitionLists ==
  { <<JStr(<<100, 101, 102>>)>>,
    <<JObj(<<"type", "content">>, <<JStr(<<116, 101, 120, 116>>), JStr(<<100, 101, 102>>)>>)>>,
    <<JArr(<<JStr(S_da), JArr(<<JStr(S_P)>>)>>)>> }

TermEntryJsons ==
  { JArr(<<JStr(S_da), JStr(S_da_reading), tags, JStr(S_n), JNum(1), JArr(definitions),
           JNum(1), term_tags>>) :
      tags \in TagJsons, term_tags \in TagJsons, definitions \in DefinitionLists }
  \cup { JArr(<<JStr(S_da), JStr(S_da_reading), JStr(S_n), JStr(S_n), JNum(1),
                JArr(<<>>), JNum(1)>>) }

TermMetaEntryJsons ==
  { JArr(<<JStr(S_da), JStr(S_freq), JNum(1)>>),
    JArr(<<JStr(S_da), JStr(S_freq), JStr(S_P)>>),
    JArr(<<JStr(S_da), JStr(S_freq),
           JObj(<<"reading", "frequency">>, <<JStr(S_da_reading), JNum(1)>>)>>),
    JArr(<<JStr(S_da), JStr(S_freq),
           JObj(<<"value", "displayValue">>, <<JNum(1), JStr(S_P)>>)>>),
    JArr(<<JStr(S_da), JStr(S_pitch),
           JObj(<<"reading", "pitches">>,
                <<JStr(S_da_reading), JArr(<<JObj(<<"position">>, <<JNum(1)>>)>>)>>)>>),
    JArr(<<JStr(S_da), JStr(S_ipa),
           JObj(<<"reading", "transcriptions">>,
                <<JStr(S_da_reading),
                  JArr(<<JObj(<<"ipa", "tags">>, <<JStr(S_P), JArr(<<JStr(S_n)>>)>>)>>)>>)>>),
    JArr(<<JStr(S_da), JStr(S_n), JNum(1)>>),
    JArr(<<JStr(S_da), JStr(S_freq), JNull>>),
    JArr(<<JStr(S_da), JStr(S_freq)>>) }

CodecInit ==
  /\ db = <<>>
  /\ registry = EmptyRegistry
  /\ request = None
  /\ outcome = None
  /\ scan = <<>>
  /\ look = <<>>
  /\ lock = <<>>
  /\ yomitan = <<>>
  /\ call = None
  /\ ingest = <<>>
  /\ progress = <<>>
  /\ proc = <<>>
  /\ \E schema \in {"term_bank", "term_meta_bank"} :
       \E json \in IF schema = "term_bank" THEN TermEntryJsons ELSE TermMetaEntryJsons :
         unit = [pc |-> "input", schema |-> schema, json |-> json,
                 decoded |-> None, encoded |-> None]

Decode ==
  /\ unit.pc = "input"
  /\ unit' = [unit EXCEPT !.pc = "decoded",
                          !.decoded = Some(IF unit.schema = "term_bank"
                                           THEN TermEntry_deserialize(unit.json)
                                           ELSE TermMetaEntry_deserialize(unit.json))]
  /\ UNCHANGED <<db, registry, seqvars, scanvars, unitvars, progress, proc>>

Encode ==
  /\ unit.pc = "decoded"
  /\ Unwrap(unit.decoded).tag = "Ok"
  /\ unit' = [unit EXCEPT !.pc = "encoded",
                          !.encoded = Some(IF unit.schema = "term_bank"
                                           THEN TermEntry_serialize(Unwrap(unit.decoded).val)
                                           ELSE TermMetaEntry_serialize(Unwrap(unit.decoded).val))]
  /\ UNCHANGED <<db, registry, seqvars, scanvars, unitvars, progress, proc>>

CodecNext == Decode \/ Encode

CodecSpec == CodecInit /\ [][CodecNext]_vars

(***************************************************************************)
(* Asset specification: copy_static_assets (dict_db_scan_fs.rs) over the   *)
(* entries of one archive, one turn of its loop at a time.  Paths and      *)
(* entry names are sequences of code points ('/' is 47, '\' is 92, '.' is  *)
(* 46); the service runs on a Unix file system without symbolic links      *)
(* below the dictionaries directory.                                       *)
(***************************************************************************)
MaxNames == 2    \* at most this many entries in the archive

\* str::ends_with
ends_with(s, suffix) ==
  /\ Len(s) >= Len(suffix)
  /\ SubSeq(s, Len(s) - Len(suffix) + 1, Len(s)) = suffix

\* str::replace('\\', "/")
replace_backslash(s) == [k \in 1..Len(s) |-> IF s[k] = 92 THEN 47 ELSE s[k]]

\* ZipFile::is_dir: the raw name ends with a separator
is_dir(name) == Len(name) > 0 /\ name[Len(name)] \in {47, 92}

\* ".json"
DotJson == <<46, 106, 115, 111, 110>>

\* Utf8Path::join (PathBuf::push): an absolute argument replaces the path,
\* otherwise it is appended after a separator
path_join(base, name) ==
  IF Len(name) > 0 /\ name[1] = 47 THEN name
  ELSE IF Len(base) > 0 /\ base[Len(base)] = 47 THEN base \o name
  ELSE base \o <<47>> \o name

\* the components of a path string, split at '/'
RECURSIVE path_components(_, _, _, _)
path_components(s, k, cur, acc) ==
  IF k > Len(s) THEN (IF cur = <<>> THEN acc ELSE Append(acc, cur))
  ELSE IF s[k] = 47
       THEN path_components(s, k + 1, <<>>, IF cur = <<>> THEN acc ELSE Append(acc, cur))
       ELSE path_components(s, k + 1, Append(cur, s[k]), acc)

\* the directory entry the file system reaches for a list of components:
\* "." stays, ".." goes to the parent (the root is its own parent)
RECURSIVE resolve(_, _, _)
resolve(comps, k, acc) ==
  IF k > Len(comps) THEN acc
  ELSE IF comps[k] = <<46>> THEN resolve(comps, k + 1, acc)
  ELSE IF comps[k] = <<46, 46>>
       THEN resolve(comps, k + 1, IF acc = <<>> THEN acc ELSE SubSeq(acc, 1, Len(acc) - 1))
       ELSE resolve(comps, k + 1, Append(acc, comps[k]))

\* the file that File::create(path) creates
created_file(path) == resolve(path_components(path, 1, <<>>, <<>>), 1, <<>>)

\* dicts_path.join("static").join(&dict_filename.0) for DICTS_PATH=/d and
\* the archive f.zip
dict_static_dir ==
  path_join(path_join(<<47, 100>>, <<115, 116, 97, 116, 105, 99>>), <<102>>)

\* entry names an archive may hold
EntryNames ==
  { <<97>>,                                \* a
    <<105, 47, 97>>,                       \* i/a
    <<105, 92, 97>>,                       \* i\a
    <<105, 47>>,                           \* i/
    <<46, 47, 97>>,                        \* ./a
    <<105, 47, 46, 46, 47, 97>>,           \* i/../a
    <<120>> \o DotJson,                    \* x.json
    <<46, 46, 47, 120>> \o DotJson,        \* ../x.json
    <<46, 46, 47, 97>>,                    \* ../a
    <<46, 46, 92, 97>>,                    \* ..\a
    <<105, 47, 46, 46, 47, 46, 46, 47, 97>>,   \* i/../../a
    <<47, 97>>,                            \* /a
    <<92, 97>> }                           \* \a

RECURSIVE NameLists(_)
NameLists(n) ==
  IF n = 0 THEN {<<>>}
  ELSE NameLists(n - 1)
       \cup {Append(l, x) : l \in {m \in NameLists(n - 1) : Len(m) = n - 1}, x \in EntryNames}

AssetInit ==
  /\ db = <<>>
  /\ registry = EmptyRegistry
  /\ request = None
  /\ outcome = None
  /\ scan = <<>>
  /\ look = <<>>
  /\ lock = <<>>
  /\ yomitan = <<>>
  /\ call = None
  /\ ingest = <<>>
  /\ progress = <<>>
  /\ proc = <<>>
  /\ \E names \in NameLists(MaxNames), exists \in BOOLEAN :
       unit = [pc |-> "check", names |-> names, exists |-> exists, i |-> 1,
               written |-> {}, copied |-> 0, result |-> None]

\* the static directory exists, or the archive is empty: nothing is copied
AssetSkip ==
  /\ unit.pc = "check"
  /\ unit.exists \/ Len(unit.names) = 0
  /\ unit' = [unit EXCEPT !.pc = "returned", !.result = Some(Ok(<<>>))]
  /\ UNCHANGED <<db, registry, seqvars, scanvars, unitvars, progress, proc>>

\* the directory does not exist and the archive has entries: the task is
\* created and the loop is entered
AssetStart ==
  /\ unit.pc = "check"
  /\ ~unit.exists /\ Len(unit.names) > 0
  /\ unit' = [unit EXCEPT !.pc = "copy"]
  /\ UNCHANGED <<db, registry, seqvars, scanvars, unitvars, progress, proc>>

\* one turn of `for i in 0..archive.len()`
AssetCopy ==
  /\ unit.pc = "copy"
  /\ unit.i <= Len(unit.names)
  /\ LET raw  == unit.names[unit.i]
         name == replace_backslash(raw)
         outpath == path_join(dict_static_dir, name)
     IN IF ends_with(name, DotJson) \/ is_dir(raw)
        THEN unit' = [unit EXCEPT !.i = @ + 1]
        ELSE unit' = [unit EXCEPT !.i = @ + 1,
                                  !.written = @ \cup {created_file(outpath)},
                                  !.copied = @ + 1]
  /\ UNCHANGED <<db, registry, seqvars, scanvars, unitvars, progress, proc>>

\* by_index, create_dir_all, File::create, io::copy or increment returns an
\* error and `?` returns it
AssetFail ==
  /\ unit.pc = "copy"
  /\ unit.i <= Len(unit.names)
  /\ unit' = [unit EXCEPT !.pc = "returned", !.result = Some(Err)]
  /\ UNCHANGED <<db, registry, seqvars, scanvars, unitvars, progress, proc>>

AssetReturn ==
  /\ unit.pc = "copy"
  /\ unit.i > Len(unit.names)
  /\ unit' = [unit EXCEPT !.pc = "returned", !.result = Some(Ok(<<>>))]
  /\ UNCHANGED <<db, registry, seqvars, scanvars, unitvars, progress, proc>>

AssetNext == AssetSkip \/ AssetStart \/ AssetCopy \/ AssetFail \/ AssetReturn

AssetSpec == AssetInit /\ [][AssetNext]_vars

(***************************************************************************)
(* Lock specification: the locks that lookups (http_handlers.rs            *)
(* lookup_term), a scan (scan_dicts, dict_db_scan_fs.rs scan_fs), and a    *)
(* reader of the progress table take and release.  The registry is behind  *)
(* a tokio::sync::RwLock, whose waiters are served in the order of their   *)
(* requests; every store connection and the progress table's connection    *)
(* is behind a std::sync::Mutex.                                           *)
(***************************************************************************)
MaxReads == 2    \* at most this many reads of the progress table

LockLookups == {"l1", "l2"}
LockScan == "s1"
LockReader == "p1"

\* the archives the scan ingests and registers, in order
LockDirs == <<"jmdict", "nhk">>

\* the lock with nobody holding it or waiting for it
FreeRwLock == [writer |-> None, readers |-> <<>>, queue |-> <<>>]

\* the semaphore of the RwLock: permits go to the waiters in queue order, a
\* reader while no writer holds the lock, a writer while nobody holds it
RECURSIVE assign_permits(_)
assign_permits(lk) ==
  IF lk.queue = <<>> THEN lk
  ELSE LET head == Head(lk.queue) IN
       IF head.mode = "read" /\ ~IsSome(lk.writer)
         THEN assign_permits([lk EXCEPT !.readers = Append(@, head.who),
                                        !.queue = Tail(@)])
       ELSE IF head.mode = "write" /\ ~IsSome(lk.writer) /\ lk.readers = <<>>
         THEN [lk EXCEPT !.writer = Some(head.who), !.queue = Tail(@)]
       ELSE lk

\* RwLock::read / RwLock::write, up to the point where the future waits
rw_request(lk, who, mode) ==
  assign_permits([lk EXCEPT !.queue = Append(@, [who |-> who, mode |-> mode])])

\* the future of read().await / write().await is ready
rw_granted(lk, who) == \A k \in 1..Len(lk.queue) : lk.queue[k].who # who

\* drop of a RwLockReadGuard
drop_read(lk, who) ==
  LET k == CHOOSE k \in 1..Len(lk.readers) : lk.readers[k] = who IN
  assign_permits([lk EXCEPT !.readers = SubSeq(@, 1, k - 1) \o SubSeq(@, k + 1, Len(@))])

\* drop of the RwLockWriteGuard
drop_write(lk) == assign_permits([lk EXCEPT !.writer = None])

\* look[l].tasks: the JoinSet of a lookup, one task per registered
\* dictionary; scan.registered: the dictionaries in the registry;
\* unit.store[d]: the Mutex of the registry's connection to d; unit.conn:
\* the Mutex of the connection insert_all writes through; unit.progress:
\* the Mutex of the progress table
LockInit ==
  /\ db = <<>>
  /\ registry = EmptyRegistry
  /\ request = None
  /\ outcome = None
  /\ yomitan = <<>>
  /\ call = None
  /\ ingest = <<>>
  /\ progress = <<>>
  /\ look = [l \in LockLookups |-> [pc |-> "idle", tasks |-> <<>>]]
  /\ lock = FreeRwLock
  /\ \E registered \in SUBSET {LockDirs[k] : k \in 1..Len(LockDirs)} :
       scan = [pc |-> "idle", i |-> 0, registered |-> registered]
  /\ unit = [store |-> [d \in {LockDirs[k] : k \in 1..Len(LockDirs)} |-> None],
             conn |-> None, progress |-> None]
  /\ proc = [pc |-> "idle", reads |-> 0]

\* lookup_term without a user: context.yomi_dicts.read() for
\* get_dictionaries_info
LookInfoRead(l) ==
  /\ look[l].pc = "idle"
  /\ lock' = rw_request(lock, l, "read")
  /\ look' = [look EXCEPT ![l].pc = "info"]
  /\ UNCHANGED <<db, registry, scan, yomitan, seqvars, unitvars, auxvars>>

\* get_dictionaries_info with its guard alive until lookup_term returns
LookInfo_keeps_guard(l) ==
  /\ look[l].pc = "info"
  /\ rw_granted(lock, l)
  /\ lock' = rw_request(lock, l, "read")
  /\ look' = [look EXCEPT ![l].pc = "read"]
  /\ UNCHANGED <<db, registry, scan, yomitan, seqvars, unitvars, auxvars>>

\* get_dictionaries_info; the guard is a temporary that is dropped at the
\* end of the statement; then context.yomi_dicts.read() for the lookup
LookInfo(l) ==
  /\ look[l].pc = "info"
  /\ rw_granted(lock, l)
  /\ lock' = rw_request(drop_read(lock, l), l, "read")
  /\ look' = [look EXCEPT ![l].pc = "read"]
  /\ UNCHANGED <<db, registry, scan, yomitan, seqvars, unitvars, auxvars>>

\* lookup: one task is spawned on the JoinSet for every dictionary
LookSpawn(l) ==
  /\ look[l].pc = "read"
  /\ rw_granted(lock, l)
  /\ look' = [look EXCEPT ![l].pc = "join",
                          ![l].tasks = [d \in scan.registered |-> "spawned"]]
  /\ UNCHANGED <<db, registry, scan, lock, yomitan, seqvars, unitvars, auxvars>>

\* DictionaryDB::get in a task: self.conn.lock()
LookGetLock(l, d) ==
  /\ look[l].pc = "join"
  /\ d \in DOMAIN look[l].tasks
  /\ look[l].tasks[d] = "spawned"
  /\ ~IsSome(unit.store[d])
  /\ unit' = [unit EXCEPT !.store[d] = Some(l)]
  /\ look' = [look EXCEPT ![l].tasks[d] = "locked"]
  /\ UNCHANGED <<db, registry, scan, lock, yomitan, seqvars, unitvars, progress, proc>>

\* DictionaryDB::get returns: the MutexGuard is dropped and the task ends
LookGetUnlock(l, d) ==
  /\ look[l].pc = "join"
  /\ d \in DOMAIN look[l].tasks
  /\ look[l].tasks[d] = "locked"
  /\ unit' = [unit EXCEPT !.store[d] = None]
  /\ look' = [look EXCEPT ![l].tasks[d] = "joined"]
  /\ UNCHANGED <<db, registry, scan, lock, yomitan, seqvars, unitvars, progress, proc>>

\* lookup has joined its tasks and returns; lookup_term drops the read
\* guard
LookReturn(l) ==
  /\ look[l].pc = "join"
  /\ \A d \in DOMAIN look[l].tasks : look[l].tasks[d] = "joined"
  /\ lock' = drop_read(lock, l)
  /\ look' = [look EXCEPT ![l].pc = "done"]
  /\ UNCHANGED <<db, registry, scan, yomitan, seqvars, unitvars, auxvars>>

\* scan_dicts: context.yomi_dicts.write()
LockScanStart ==
  /\ scan.pc = "idle"
  /\ lock' = rw_request(lock, LockScan, "write")
  /\ scan' = [scan EXCEPT !.pc = "clear"]
  /\ UNCHANGED <<db, registry, look, yomitan, seqvars, unitvars, auxvars>>

\* scan_dicts: clear() under the write guard, which is dropped at the end
\* of the statement; then scan_fs
LockScanClear ==
  /\ scan.pc = "clear"
  /\ rw_granted(lock, LockScan)
  /\ lock' = drop_write(lock)
  /\ scan' = [scan EXCEPT !.pc = "task", !.i = 1, !.registered = {}]
  /\ UNCHANGED <<db, registry, look, yomitan, seqvars, unitvars, auxvars>>

\* create_task of new_from_archive and of insert_all: the progress table's
\* conn.lock()
LockScanTaskLock ==
  /\ scan.pc = "task"
  /\ scan.i <= Len(LockDirs)
  /\ ~IsSome(unit.progress)
  /\ unit' = [unit EXCEPT !.progress = Some(LockScan)]
  /\ scan' = [scan EXCEPT !.pc = "task_locked"]
  /\ UNCHANGED <<db, registry, look, lock, yomitan, seqvars, unitvars, progress, proc>>

\* create_task returns; insert_all: self.conn.lock() and the transaction
LockScanConnLock ==
  /\ scan.pc = "task_locked"
  /\ ~IsSome(unit.conn)
  /\ unit' = [unit EXCEPT !.progress = None, !.conn = Some(LockScan)]
  /\ scan' = [scan EXCEPT !.pc = "insert"]
  /\ UNCHANGED <<db, registry, look, lock, yomitan, seqvars, unitvars, progress, proc>>

\* insert_all: progress_state.increment while the connection is locked
LockScanIncrementLock ==
  /\ scan.pc = "insert"
  /\ ~IsSome(unit.progress)
  /\ unit' = [unit EXCEPT !.progress = Some(LockScan)]
  /\ scan' = [scan EXCEPT !.pc = "increment"]
  /\ UNCHANGED <<db, registry, look, lock, yomitan, seqvars, unitvars, progress, proc>>

\* increment returns; insert_all commits or fails, and its guard on the
\* connection is dropped either way: scan_fs asks for the write lock after
\* an Ok and continues with the next archive after an Err
LockScanCommit ==
  /\ scan.pc = "increment"
  /\ unit' = [unit EXCEPT !.progress = None, !.conn = None]
  /\ \/ /\ lock' = rw_request(lock, LockScan, "write")
        /\ scan' = [scan EXCEPT !.pc = "register"]
     \/ /\ lock' = lock
        /\ scan' = [scan EXCEPT !.pc = "task", !.i = @ + 1]
  /\ UNCHANGED <<db, registry, look, yomitan, seqvars, unitvars, progress, proc>>

\* scan_fs: register_dictionary under the write guard, which is dropped at
\* the end of the statement
LockScanRegister ==
  /\ scan.pc = "register"
  /\ rw_granted(lock, LockScan)
  /\ lock' = drop_write(lock)
  /\ scan' = [scan EXCEPT !.pc = "task", !.i = @ + 1,
                          !.registered = @ \cup {LockDirs[scan.i]}]
  /\ UNCHANGED <<db, registry, look, yomitan, seqvars, unitvars, auxvars>>

\* scan_dicts after scan_fs: context.yomi_dicts.read()
LockScanListRead ==
  /\ scan.pc = "task"
  /\ scan.i > Len(LockDirs)
  /\ lock' = rw_request(lock, LockScan, "read")
  /\ scan' = [scan EXCEPT !.pc = "list"]
  /\ UNCHANGED <<db, registry, look, yomitan, seqvars, unitvars, auxvars>>

\* scan_dicts: get_dictionaries_info; the guard is dropped at the return
LockScanList ==
  /\ scan.pc = "list"
  /\ rw_granted(lock, LockScan)
  /\ lock' = drop_read(lock, LockScan)
  /\ scan' = [scan EXCEPT !.pc = "done"]
  /\ UNCHANGED <<db, registry, look, yomitan, seqvars, unitvars, auxvars>>

\* get_progress / get_all_tasks: the progress table's conn.lock()
ReadProgressLock ==
  /\ proc.pc = "idle"
  /\ proc.reads < MaxReads
  /\ ~IsSome(unit.progress)
  /\ unit' = [unit EXCEPT !.progress = Some(LockReader)]
  /\ proc' = [proc EXCEPT !.pc = "locked"]
  /\ UNCHANGED <<db, registry, look, lock, scan, yomitan, seqvars, unitvars, progress>>

\* the read returns and its guard is dropped
ReadProgressUnlock ==
  /\ proc.pc = "locked"
  /\ unit' = [unit EXCEPT !.progress = None]
  /\ proc' = [proc EXCEPT !.pc = "idle", !.reads = @ + 1]
  /\ UNCHANGED <<db, registry, look, lock, scan, yomitan, seqvars, unitvars, progress>>

LockLookup(l) ==
  \/ LookInfoRead(l) \/ LookInfo(l) \/ LookSpawn(l) \/ LookReturn(l)
  \/ \E d \in {LockDirs[k] : k \in 1..Len(LockDirs)} :
       LookGetLock(l, d) \/ LookGetUnlock(l, d)

LockScanStep ==
  \/ LockScanStart \/ LockScanClear \/ LockScanTaskLock \/ LockScanConnLock
  \/ LockScanIncrementLock \/ LockScanCommit \/ LockScanRegister
  \/ LockScanListRead \/ LockScanList

LockReaderStep == ReadProgressLock \/ ReadProgressUnlock

LockNext ==
  \/ \E l \in LockLookups : LockLookup(l)
  \/ LockScanStep
  \/ LockReaderStep

LockSpec == LockInit /\ [][LockNext]_vars

\* the runtime keeps running every request that can take a step
LockFair ==
  /\ LockSpec
  /\ \A l \in LockLookups : WF_vars(LockLookup(l))
  /\ WF_vars(LockScanStep)
  /\ WF_vars(LockReaderStep)

(***************************************************************************)
(* Properties of the sequential specification                              *)
(***************************************************************************)
AllRegistered(reg) == reg.terms \o reg.pitch \o reg.freq \o reg.kanji

Answered == request # None /\ outcome # None
Req == Unwrap(request)
Out == Unwrap(outcome)

TermStore(dict) == Unwrap(Bank(dict, "term_bank"))
HasKey(dict, k) ==
  \E i \in 1..Len(TermStore(dict).rows) : TermStore(dict).rows[i].key = k
Entries(dict, k) ==
  IF HasKey(dict, k) THEN Unwrap(get(TermStore(dict), k).val).entries ELSE <<>>
Healthy(dict) ==
  \A i \in 1..Len(TermStore(dict).rows) :
    TermStore(dict).rows[i].io_ok /\ TermStore(dict).rows[i].json.valid

IsEnabled(dict) ==
  DictIdentity(dict.title, dict.revision) \notin Req.prefs.term_disabled_dictionaries

\* the entries the answer holds for a Term dictionary
ResultEntries(dict) ==
  LET hits == {i \in 1..Len(Out.val.dict) : Out.val.dict[i].origin = dict.origin} IN
  IF hits = {} THEN <<>> ELSE Out.val.dict[CHOOSE i \in hits : TRUE].entries

Contains(whole, part) ==
  \E i \in 0..Len(whole) :
    i + Len(part) <= Len(whole) /\ SubSeq(whole, i + 1, i + Len(part)) = part

RangeOf(q) == {q[i] : i \in 1..Len(q)}

\* C1: after any sequence of register_dictionary calls, no two dictionaries
\* held in the four buckets have the same (title, revision)
C1_RegistryUnique ==
  LET all == AllRegistered(registry) IN
  \A i, j \in 1..Len(all) :
    (all[i].title = all[j].title /\ all[i].revision = all[j].revision) => i = j

\* C4: for every reachable registry and every token list, lookup ends with
\* a LookupResult or an error value; it never panics
C4_LookupNeverPanics ==
  Answered => Out.tag \in {"Ok", "Err"}

\* C5: a query that fails against one dictionary (Term, Pitch or Frequency)
\* does not abort the lookup: a LookupResult is still returned
C5_FailureIsolated ==
  Answered => Out.tag # "Err"

NoneDisabled ==
  [term_disabled_dictionaries |-> {},
   freq_disabled_dictionaries |-> Req.prefs.freq_disabled_dictionaries]

ResultIdentity(r) == DictIdentity(r.title, r.revision)

\* C7: the dictionary results of a lookup with disabled set D are the
\* results of the lookup with the empty disabled set, restricted to the
\* dictionaries not in D: every remaining dictionary returns the same
\* entries and no result comes from a dictionary in D
C7_DisabledSubset ==
  Answered =>
    \A order0 \in Perms(enabled_terms(registry, NoneDisabled)) :
      LET full == lookup(registry, Req.token_features, NoneDisabled, order0,
                         Req.form_order, Req.span_enabled) IN
      full.tag = "Ok" =>
        /\ Out.tag = "Ok"
        /\ RangeOf(Out.val.dict) =
             {r \in RangeOf(full.val.dict) :
                ResultIdentity(r) \notin Req.prefs.term_disabled_dictionaries}

\* C7 witness: a lookup answered with a non-empty result while a disabled
\* dictionary holds entries for the tokens
C7_Witness ==
  /\ Answered
  /\ Out.tag = "Ok"
  /\ Len(Out.val.dict) > 0
  /\ \E i \in 1..Len(registry.terms) :
       /\ ~IsEnabled(registry.terms[i])
       /\ term_lookup(registry.terms[i], Req.token_features).tag = "Ok"
       /\ Len(term_lookup(registry.terms[i], Req.token_features).val.entries) > 0

\* the tokens whose surface form is all katakana and is a key of the store
KatakanaHit(dict, feature) ==
  /\ IsSome(feature.surface_form)
  /\ is_katakana(Unwrap(feature.surface_form))
  /\ HasKey(dict, Unwrap(feature.surface_form))

\* the entries found under a token's dictionary form, when it is searched
DictFormEntries(dict, feature) ==
  IF IsSome(feature.dictionary_form)
     /\ feature.dictionary_form # feature.surface_form
    THEN Entries(dict, Unwrap(feature.dictionary_form)) ELSE <<>>

RECURSIVE ConcatOver(_, _, _)
ConcatOver(Part(_), q, i) ==
  IF i > Len(q) THEN <<>> ELSE Part(q[i]) \o ConcatOver(Part, q, i + 1)

\* C8 as stated: when the store contains the katakana surface form s, the
\* entries under s and then the entries under its hiragana form s' are in
\* the dictionary's result
C8_Original ==
  (Answered /\ Out.tag = "Ok") =>
    \A i \in 1..Len(registry.terms) :
      LET dict == registry.terms[i]
          Both(f) == Entries(dict, Unwrap(f.surface_form))
                     \o Entries(dict, to_hiragana(Unwrap(f.surface_form))) IN
      (/\ IsEnabled(dict) /\ Healthy(dict)
       /\ \E k \in 1..Len(Req.token_features) :
            /\ KatakanaHit(dict, Req.token_features[k])
            /\ HasKey(dict, to_hiragana(Unwrap(Req.token_features[k].surface_form))))
      => \A k \in 1..Len(Req.token_features) :
           KatakanaHit(dict, Req.token_features[k])
             => Contains(ResultEntries(dict), Both(Req.token_features[k]))

\* C8 amended: when the store contains the katakana surface form s, only
\* the direct lookup is made for the surface form; the token contributes the
\* entries under s, followed by the entries under its dictionary form when
\* that differs from s, and the hiragana fallback is not attempted
C8_DirectOnly ==
  (Answered /\ Out.tag = "Ok") =>
    \A i \in 1..Len(registry.terms) :
      LET dict == registry.terms[i]
          Direct(f) == Entries(dict, Unwrap(f.surface_form))
                       \o DictFormEntries(dict, f) IN
      (/\ IsEnabled(dict) /\ Healthy(dict)
       /\ Len(Req.token_features) > 0
       /\ \A k \in 1..Len(Req.token_features) :
            KatakanaHit(dict, Req.token_features[k]))
      => ResultEntries(dict) = ConcatOver(Direct, Req.token_features, 1)

\* C8 witness: an answered lookup of a katakana surface form whose
\* dictionary form is the same, in a dictionary that holds both the
\* katakana key and its hiragana form
C8_Witness ==
  /\ Answered /\ Out.tag = "Ok"
  /\ \E i \in 1..Len(registry.terms), k \in 1..Len(Req.token_features) :
       LET dict == registry.terms[i]
           f == Req.token_features[k] IN
       /\ IsEnabled(dict) /\ Healthy(dict)
       /\ \A m \in 1..Len(Req.token_features) :
            KatakanaHit(dict, Req.token_features[m])
       /\ f.dictionary_form = f.surface_form
       /\ HasKey(dict, to_hiragana(Unwrap(f.surface_form)))
       /\ Len(ResultEntries(dict)) > 0

\* the tokens whose surface form is all katakana and is no key of the
\* store, while its hiragana form is
KatakanaMiss(dict, feature) ==
  /\ IsSome(feature.surface_form)
  /\ is_katakana(Unwrap(feature.surface_form))
  /\ ~HasKey(dict, Unwrap(feature.surface_form))
  /\ HasKey(dict, to_hiragana(Unwrap(feature.surface_form)))

\* the tokens that find nothing unless a fallback is made for a surface
\* form that is not all katakana
PlainMiss(dict, feature) ==
  /\ IsSome(feature.surface_form)
  /\ ~is_katakana(Unwrap(feature.surface_form))
  /\ ~HasKey(dict, Unwrap(feature.surface_form))
  /\ DictFormEntries(dict, feature) = <<>>

\* C9: when the katakana surface form s is no key of the store and its
\* hiragana form s' is, the dictionary's result contains the entries under
\* s'; for a surface form that is not all katakana no fallback is made
C9_KatakanaFallback ==
  (Answered /\ Out.tag = "Ok") =>
    \A i \in 1..Len(registry.terms) :
      LET dict == registry.terms[i] IN
      (IsEnabled(dict) /\ Healthy(dict)) =>
        /\ \A k \in 1..Len(Req.token_features) :
             KatakanaMiss(dict, Req.token_features[k]) =>
               Contains(ResultEntries(dict),
                        Entries(dict, to_hiragana(Unwrap(Req.token_features[k].surface_form))))
        /\ (/\ Len(Req.token_features) > 0
            /\ \A k \in 1..Len(Req.token_features) :
                 PlainMiss(dict, Req.token_features[k]))
           => ResultEntries(dict) = <<>>

\* C9 witness: an answered lookup whose first token reaches a dictionary
\* through the fallback and whose second token, not all katakana, misses
\* although its hiragana form is a key
C9_Witness ==
  /\ Answered /\ Out.tag = "Ok"
  /\ \E i \in 1..Len(registry.terms) :
       LET dict == registry.terms[i] IN
       /\ IsEnabled(dict) /\ Healthy(dict)
       /\ Len(Req.token_features) = 2
       /\ KatakanaMiss(dict, Req.token_features[1])
       /\ Len(ResultEntries(dict)) > 0
       /\ PlainMiss(dict, Req.token_features[2])
       /\ HasKey(dict, to_hiragana(Unwrap(Req.token_features[2].surface_form)))

\* the pitch entries the first Pitch dictionary holds for a term and reading
HasPitchEntry(text, reading) ==
  /\ Len(registry.pitch) > 0
  /\ pitch_lookup(registry.pitch[1], text, reading).tag = "Ok"
  /\ IsSome(pitch_lookup(registry.pitch[1], text, reading).val)

\* C10: readings are normalized to hiragana before the pitch join: the
\* reading keys of the pitch map and the readings of its pitch accents are
\* hiragana, and a term entry whose reading is written in katakana is
\* joined with the pitch entry of the same reading in hiragana
C10_HiraganaJoin ==
  (Answered /\ Out.tag = "Ok") =>
    /\ \A p \in DOMAIN Out.val.pitch :
         /\ is_hiragana(p[2])
         /\ \A a \in 1..Len(Out.val.pitch[p].pitch_accents) :
              is_hiragana(Out.val.pitch[p].pitch_accents[a].reading)
    /\ \A d \in 1..Len(Out.val.dict) :
         \A e \in 1..Len(Out.val.dict[d].entries) :
           LET entry == Out.val.dict[d].entries[e] IN
           HasPitchEntry(entry.text, to_hiragana(entry.reading))
             => <<entry.text, to_hiragana(entry.reading)>> \in DOMAIN Out.val.pitch

\* C11: every (text, reading) key of the pitch map of a LookupResult is the
\* text and reading of some entry of some returned dictionary result
C11_PitchKeysFromEntries ==
  (Answered /\ Out.tag = "Ok") =>
    \A p \in DOMAIN Out.val.pitch :
      \E d \in 1..Len(Out.val.dict) : \E e \in 1..Len(Out.val.dict[d].entries) :
        /\ Out.val.dict[d].entries[e].text = p[1]
        /\ Out.val.dict[d].entries[e].reading = p[2]

\* C11 witness: an answered lookup with a pitch result, among entries of
\* which one has a reading written in katakana
C11_Witness ==
  /\ Answered /\ Out.tag = "Ok"
  /\ DOMAIN Out.val.pitch # {}
  /\ \E d \in 1..Len(Out.val.dict) : \E e \in 1..Len(Out.val.dict[d].entries) :
       is_katakana(Out.val.dict[d].entries[e].reading)

\* the entries found by the surface-form search of a token: those under the
\* surface form, or those under its hiragana form when the surface form is
\* no key and is all katakana
SurfaceFormEntries(dict, feature) ==
  IF ~IsSome(feature.surface_form) THEN <<>>
  ELSE IF HasKey(dict, Unwrap(feature.surface_form))
    THEN Entries(dict, Unwrap(feature.surface_form))
  ELSE IF is_katakana(Unwrap(feature.surface_form))
    THEN Entries(dict, to_hiragana(Unwrap(feature.surface_form)))
  ELSE <<>>

\* C29: the entries of a Term dictionary's result are, token by token in
\* input order, the entries stored under the surface form (under its
\* hiragana form when the surface form misses and is all katakana) followed
\* by the entries stored under the dictionary form when it differs from the
\* surface form, each group in stored order, a miss adding nothing; the list
\* depends on the store and the tokens alone, so every lookup of the same
\* tokens on the same store returns it, whatever the completion order of
\* the tasks, the preferences of the other dictionaries or the lookups made
\* before
C29_TermResultOrder ==
  (Answered /\ Out.tag = "Ok") =>
    \A i \in 1..Len(registry.terms) :
      LET dict == registry.terms[i]
          Group(f) == SurfaceFormEntries(dict, f) \o DictFormEntries(dict, f) IN
      (IsEnabled(dict) /\ Healthy(dict))
        => ResultEntries(dict) = ConcatOver(Group, Req.token_features, 1)

\* C29 witness: an answered lookup of two tokens in a dictionary where the
\* first token's katakana surface form misses and its hiragana form and
\* its dictionary form both hit, and the second token's surface form hits
C29_Witness ==
  /\ Answered /\ Out.tag = "Ok"
  /\ Len(Req.token_features) = 2
  /\ \E i \in 1..Len(registry.terms) :
       LET dict == registry.terms[i]
           f == Req.token_features[1]
           g == Req.token_features[2] IN
       /\ IsEnabled(dict) /\ Healthy(dict)
       /\ is_katakana(Unwrap(f.surface_form))
       /\ ~HasKey(dict, Unwrap(f.surface_form))
       /\ HasKey(dict, to_hiragana(Unwrap(f.surface_form)))
       /\ DictFormEntries(dict, f) # <<>>
       /\ HasKey(dict, Unwrap(g.surface_form))
       /\ g.dictionary_form = g.surface_form
       /\ Len(ResultEntries(dict)) >= 3

\* the dictionary forms the tokens of the request carry
RequestedForms ==
  {Unwrap(Req.token_features[k].dictionary_form) :
     k \in {j \in 1..Len(Req.token_features) :
              IsSome(Req.token_features[j].dictionary_form)}}

\* the freq-kind entries a Frequency dictionary stores under a key, in
\* stored order, as the FrequencyData of the answer
RECURSIVE FreqKind(_)
FreqKind(entries) ==
  IF entries = <<>> THEN <<>>
  ELSE (IF Head(entries).kind = "freq"
          THEN <<[term |-> Head(entries).term, reading |-> Head(entries).reading,
                  value |-> Head(entries).value]>>
          ELSE <<>>) \o FreqKind(Tail(entries))

FreqStored(dict, k) ==
  LET rows == Unwrap(Bank(dict, "term_meta_bank")).rows
      hits == {i \in 1..Len(rows) : rows[i].key = k} IN
  IF hits = {} THEN <<>> ELSE FreqKind(rows[CHOOSE i \in hits : TRUE].json.entries)

FreqEnabled(dict) ==
  DictIdentity(dict.title, dict.revision) \notin Req.prefs.freq_disabled_dictionaries

Called == call # None
Call == Unwrap(call)
CalledDir == Unwrap(db[Call.name])

DictTypes == {"Term", "Pitch", "Frequency", "Kanji"}

\* the number of rows of a table, 0 when the table is absent
RowsOf(dir, schema) ==
  IF IsSome(dir.stores[schema]) THEN Len(Unwrap(dir.stores[schema]).rows) ELSE 0

HoldsARow(dir) == \E schema \in Schemas : RowsOf(dir, schema) > 0

SameResult(r1, r2) == r1.tag = r2.tag /\ (r1.tag = "Ok" => r1.val = r2.val)

ByPriority(dir) ==
  LET meta == Unwrap(dir.stores["term_meta_bank"]).rows[1].json IN
  IF RowsOf(dir, "kanji_bank") >= 1 \/ contains_kanji(Unwrap(dir.index).revision)
    THEN Ok("Kanji")
  ELSE IF RowsOf(dir, "term_meta_bank") >= 1 THEN
    IF meta.valid /\ meta.entries[1].kind = "freq" THEN Ok("Frequency")
    ELSE IF meta.valid /\ meta.entries[1].kind = "pitch" THEN Ok("Pitch")
    ELSE Err
  ELSE IF RowsOf(dir, "term_bank") >= 1 THEN Ok("Term")
  ELSE Err

Conflict ==
  \E i \in 1..Len(Call.before.terms) :
    /\ Call.before.terms[i].title = Unwrap(CalledDir.index).title
    /\ Call.before.terms[i].revision = Unwrap(CalledDir.index).revision

Input == merge_json(ingest.files, 1)

\* the committed rows of the store, none when the file was not created
StoredRows == IF IsSome(ingest.store) THEN Unwrap(ingest.store).rows ELSE <<>>

\* the input entries whose first field is the key, in input order
RECURSIVE EntriesOf(_, _, _)
EntriesOf(json, i, key) ==
  IF i > Len(json) THEN <<>>
  ELSE (IF json[i].first = Some(key) THEN <<json[i]>> ELSE <<>>)
       \o EntriesOf(json, i + 1, key)

InsertedAll == ingest.pc = "done" /\ ingest.inserted = "Ok"

\* C15: after grouping and insert_all the keys of the store are the first
\* fields of the input entries, each key has one row, and the payload of key
\* k is the input entries whose first field is k, in input order across the
\* shard files
C15_StoreHoldsGroupedInput ==
  InsertedAll =>
    /\ {StoredRows[i].key : i \in 1..Len(StoredRows)}
         = {Unwrap(Input[j].first) : j \in 1..Len(Input)}
    /\ \A i, j \in 1..Len(StoredRows) :
         StoredRows[i].key = StoredRows[j].key => i = j
    /\ \A i \in 1..Len(StoredRows) :
         /\ StoredRows[i].json.valid
         /\ StoredRows[i].json.entries = EntriesOf(Input, 1, StoredRows[i].key)

\* C15 witness: an insert_all over two shard files that both hold entries of
\* one key, and another key
C15_Witness ==
  /\ InsertedAll
  /\ Len(ingest.files) = 2
  /\ Len(StoredRows) >= 2
  /\ \E a \in 1..Len(ingest.files[1]), b \in 1..Len(ingest.files[2]) :
       ingest.files[1][a].first = ingest.files[2][b].first

\* C16: when insert_all returns an error the store holds none of the rows
\* of the call: its content is its content before the call, which is empty
C16_FailedInsertLeavesNothing ==
  (ingest.pc = "done" /\ ingest.inserted = "Err") =>
    /\ StoredRows = <<>>
    /\ Unwrap(ingest.store).pending = <<>>
    /\ ~Unwrap(ingest.store).writing

\* C16 witness: insert_all has failed after a batch was inserted
C16_Witness ==
  /\ ingest.pc = "done"
  /\ ingest.inserted = "Err"
  /\ ingest.written > 0

\* C17: after an ingest every row of the table has a key that is not the
\* empty string and a payload with at least one entry
C17_RowsWellFormed ==
  ingest.pc = "done" =>
    \A i \in 1..Len(StoredRows) :
      /\ StoredRows[i].key # <<>>
      /\ StoredRows[i].json.valid
      /\ Len(StoredRows[i].json.entries) >= 1

(***************************************************************************)
(* Properties of the concurrent specification                              *)
(***************************************************************************)
Reading(l) == look[l].pc # "idle"

\* the buckets the lookup has consulted so far agree with the registry it
\* found when it got the read guard
ConsultedAgree(l) ==
  /\ look[l].pc \in {"pitch", "freq", "release"} => look[l].terms = look[l].view.terms
  /\ look[l].pc \in {"freq", "release"} /\ look[l].found
       => look[l].pitch = look[l].view.pitch
  /\ look[l].pc = "release" => look[l].freq = look[l].view.freq

\* the stores a registered dictionary holds open
OpenedStores(dict) ==
  {Unwrap(Unwrap(db[dict.origin]).stores[schema]) : schema \in dict.banks}

\* C2: while a lookup holds the read guard the registry is the one it found
\* when it got the guard, and every bucket it has consulted is that
\* registry's bucket: registrations made by scans fall before or after the
\* lookup, never inside its fan-out.
C2_LookupSeesOneRegistry ==
  \A l \in Lookups :
    Reading(l) => registry = look[l].view /\ ConsultedAgree(l)

\* C2 witness: a lookup is past its Term fan-out over a non-empty registry
\* while a scan waits for the write lock to register the next dictionary.
C2_Witness ==
  \E l \in Lookups, s \in Scans :
    /\ look[l].pc \in {"pitch", "freq"}
    /\ Len(look[l].terms) > 0
    /\ scan[s].pc = "lock"

\* C3: no store of a registered dictionary has an insert_all transaction
\* in progress.
C3_NoWriteOnOpenedStore ==
  \A b \in Buckets : \A i \in 1..Len(registry[b]) :
    \A store \in OpenedStores(registry[b][i]) : ~store.writing

\* C6: a scan that has ended has gone through every archive of yomitan/,
\* whatever failed on the way.
C6_ScanContinues ==
  \A s \in Scans : Ended(s) => scan[s].i > Len(yomitan)

\* the dictionaries of the registry that were opened from db/<name>
RegisteredFrom(name) ==
  {<<b, i>> \in Buckets \X (1..MaxDicts) :
     i <= Len(registry[b]) /\ registry[b][i].origin = name}

\* C18: an archive whose index.json parses and fails validation is rejected:
\* none of its stores is populated and it is not registered
C18_InvalidIndexRejected ==
  \A name \in DirNames :
    (/\ IsSome(db[name])
     /\ IsSome(Unwrap(db[name]).index)
     /\ validate(Unwrap(Unwrap(db[name]).index)).tag = "Err")
    => /\ \A schema \in Schemas : ~IsSome(Unwrap(db[name]).stores[schema])
       /\ RegisteredFrom(name) = {}

\* the archives a scan has dealt with: those before the one it is at, whose
\* file was where read_dir had listed it
Handled(s) ==
  {j \in 1..Len(yomitan) :
     j < scan[s].i /\ j <= Len(scan[s].snap) /\ scan[s].snap[j] = yomitan[j].nfc}

\* C19: a scan with max_size_mb = m size-filters the archives of more than
\* m * 2^20 bytes and no others
C19_SizeFilter ==
  \A s \in Scans :
    IsSome(scan[s].max_size_mb) =>
      /\ scan[s].size_filtered = Cardinality(scan[s].filtered)
      /\ \A j \in Handled(s) :
           j \in scan[s].filtered
             <=> yomitan[j].size > Unwrap(scan[s].max_size_mb) * MiB

\* C20: when db/<filename> exists as the scan reaches an archive, the scan
\* counts the archive as skipped, goes to the registration without any of
\* the extracting steps, and calls register_dictionary: at the head of the
\* loop the calls made are as many as the archives processed and skipped
C20_SkipsButRegisters ==
  \A s \in Scans :
    /\ scan[s].skipped = scan[s].found
    /\ (scan[s].existed /\ scan[s].pc \notin {"check", "done", "aborted", "panicked"})
         => scan[s].pc \in {"lock", "register"}
    /\ scan[s].pc \in {"check", "done"}
         => scan[s].calls = scan[s].processed + scan[s].skipped

\* C20 witness: a scan is about to call register_dictionary on a directory
\* that existed when it reached the archive
C20_Witness ==
  \E s \in Scans :
    /\ scan[s].pc = "register"
    /\ scan[s].existed
    /\ scan[s].skipped >= 1
    /\ IsSome(db[CurDir(s)])

\* the counters scan_fs reports
Counters(s) ==
  <<scan[s].zip_count, scan[s].processed, scan[s].skipped, scan[s].errors,
    scan[s].size_filtered>>

\* C21: a scan calls register_dictionary for an archive only when
\* process_archive returned Ok for it or its directory was there already,
\* never for an archive whose processing failed; a registration, failed or
\* not, leaves the counters as they were and the scan goes on with the next
\* archive
C21_RegisterAfterSuccess ==
  [][\A s \in Scans :
       /\ scan'[s].registered \cap scan'[s].failed = {}
       /\ (scan[s].pc = "register" /\ scan'[s] # scan[s])
            => /\ scan[s].existed \/ scan[s].i \in scan[s].ok
               /\ <<scan'[s].zip_count, scan'[s].processed, scan'[s].skipped,
                    scan'[s].errors, scan'[s].size_filtered>> = Counters(s)
               /\ scan'[s].pc = "check"
               /\ scan'[s].i = scan[s].i + 1]_vars

\* C21 witness: a scan that counted an archive as failed is at a later
\* archive, and the registration it is about to make there fails
C21_Witness ==
  \E s \in Scans :
    /\ scan[s].pc = "register"
    /\ scan[s].failed # {}
    /\ scan[s].i \notin scan[s].failed
    /\ register_dictionary(registry, CurDir(s)).res = "Err"

\* the scan is between the clear of scan_dicts and the end of scan_fs
Rescanning(s) == scan[s].pc # "idle" /\ ~Ended(s)

\* the directories of the archives the scan registers when nothing fails:
\* those of the sound archives that pass its size filter
WillRegister(s) ==
  {yomitan[j].stem :
     j \in {k \in 1..Len(yomitan) :
              /\ yomitan[k].fault = "none"
              /\ ~size_filter(scan[s].max_size_mb, yomitan[k].size)}}

\* C32: a lookup that reads the registry while a rescan is running reads
\* the dictionaries registered when the rescan cleared the registry or a
\* registry that holds every dictionary the rescan registers, never an
\* empty or partly rebuilt one
C32_RescanIsAtomic ==
  \A l \in Lookups, s \in Scans :
    (Reading(l) /\ Rescanning(s)) =>
      \/ Origins(look[l].view) = scan[s].had
      \/ WillRegister(s) \subseteq Origins(look[l].view)

\* C35: when a rescan with max_size_mb has ended and no other scan is
\* running, every dictionary the registry held when the rescan cleared it,
\* whose directory db/<name> exists and whose archive the rescan
\* size-filtered, is in the registry
C35_RescanKeepsRegistered ==
  \A s \in Scans :
    (/\ scan[s].pc = "done"
     /\ IsSome(scan[s].max_size_mb)
     /\ \A t \in Scans \ {s} : ~Rescanning(t))
    => \A j \in scan[s].filtered :
         (yomitan[j].stem \in scan[s].had /\ IsSome(db[yomitan[j].stem]))
           => yomitan[j].stem \in Origins(registry)

\* what makes process_archive fail after it has created db/<filename>
FailsAfterMkdir == {"no_index", "bad_shard", "storage_error"}

\* C33: an archive whose processing failed after its directory was created
\* is not taken as already existing by a scan that reaches it afterwards:
\* no scan counts it as skipped and goes on to hand its directory to
\* register_dictionary
C33_FailedArchiveReprocessed ==
  \A s \in Scans : \A t \in Scans \ {s} :
    (/\ Ended(t)
     /\ scan[s].pc \in {"lock", "register"}
     /\ scan[s].i \in scan[t].failed
     /\ CurFile(s).fault \in FailsAfterMkdir)
    => ~scan[s].existed

\* C37: an archive for which DictionaryDB::new fails on a schema that has
\* entries is counted as an error and not as processed by the scan that
\* ingests it, and that scan does not call register_dictionary for it
C37_StoreCreationFailureCounted ==
  \A s \in Scans : \A i \in 1..Len(yomitan) :
    (/\ yomitan[i].fault = "db_create_error"
     /\ i \in scan[s].ok \cup scan[s].failed)
    => /\ i \in scan[s].failed
       /\ i \notin scan[s].ok
       /\ i \notin scan[s].registered

\* C38: when a scan returns normally, every .zip file it found was counted
\* in exactly one of processed, skipped, errors and size_filtered:
\* zip_files = processed + skipped + errors + size_filtered, and the
\* archives counted as processed, as errors and as size-filtered are
\* disjoint sets of those sizes
C38_CountersAddUp ==
  \A s \in Scans :
    scan[s].pc = "done" =>
      /\ scan[s].zip_count =
           scan[s].processed + scan[s].skipped + scan[s].errors + scan[s].size_filtered
      /\ Cardinality(scan[s].ok) = scan[s].processed
      /\ Cardinality(scan[s].failed) = scan[s].errors
      /\ Cardinality(scan[s].filtered) = scan[s].size_filtered
      /\ scan[s].ok \cap scan[s].failed = {}
      /\ scan[s].ok \cap scan[s].filtered = {}
      /\ scan[s].failed \cap scan[s].filtered = {}

\* a scan has returned after it processed an archive, failed on one and
\* found the directory of one, and another after it filtered one by size
C38_Witness ==
  /\ \E s \in Scans :
       /\ scan[s].pc = "done"
       /\ scan[s].zip_count = Len(yomitan)
       /\ scan[s].processed > 0
       /\ scan[s].skipped > 0
       /\ scan[s].errors + scan[s].size_filtered > 0

(***************************************************************************)
(* Properties of the task specification                                    *)
(***************************************************************************)
\* process_archive has returned Ok
IngestReturned == proc.pc = "returned" /\ proc.result = "Ok"

\* C22: when process_archive returns Ok, every task it created satisfies
\* is_task_complete
C22_TasksComplete ==
  IngestReturned =>
    \A i \in DOMAIN progress :
      is_task_complete(progress, progress[i].task_id) = Ok(TRUE)

\* C39: every task that the ingest of an archive creates (MergeJson,
\* DbInsertAll, CopyStaticAssets) has 0 <= current <= total in every
\* reachable state, and no step removes a task or lowers its current, the
\* steps at which the ingest fails included
C39_ProgressWithinTotal ==
  /\ [](\A i \in DOMAIN progress :
          /\ progress[i].task_type \in {"MergeJson", "DbInsertAll", "CopyStaticAssets"}
          /\ 0 <= progress[i].current
          /\ progress[i].current <= progress[i].total)
  /\ [][\A i \in DOMAIN progress :
          /\ i \in DOMAIN progress'
          /\ progress'[i].task_id = progress[i].task_id
          /\ progress'[i].total = progress[i].total
          /\ progress'[i].current >= progress[i].current]_vars

\* the ingest has failed part-way through a task: a MergeJson task with one
\* of its two files counted, beside tasks that reached their totals
C39_Witness ==
  /\ proc.pc = "returned"
  /\ proc.result = "Err"
  /\ \E i \in DOMAIN progress :
       /\ progress[i].task_type = "MergeJson"
       /\ 0 < progress[i].current
       /\ progress[i].current < progress[i].total
  /\ \E i \in DOMAIN progress :
       /\ progress[i].task_type = "DbInsertAll"
       /\ progress[i].current = progress[i].total
       /\ progress[i].total > 0

(***************************************************************************)
(* Properties of the progress specification                                *)
(***************************************************************************)
\* the rows get_all_tasks returns for a task
RowsFor(task_id) ==
  {i \in 1..Len(get_all_tasks(progress)) :
     get_all_tasks(progress)[i].task_id = task_id}

\* C23: whatever the interleaving of create_task and increment calls, each
\* created task is returned by get_all_tasks exactly once, with the total it
\* was created with and a current that is the sum of the amounts
\* incremented on it
C23_NoIncrementLost ==
  /\ Len(get_all_tasks(progress)) = Len(proc.given)
  /\ \A task_id \in 1..Len(proc.given) :
       /\ Cardinality(RowsFor(task_id)) = 1
       /\ \A i \in RowsFor(task_id) :
            /\ get_all_tasks(progress)[i].current = proc.sent[task_id]
            /\ get_all_tasks(progress)[i].total = proc.given[task_id]

\* C23 witness: two tasks, the first of them incremented by both callers
C23_Witness ==
  /\ Len(proc.given) = 2
  /\ proc.sent[1] = 3
  /\ \A w \in Workers : proc.worker[w].left < MaxIncrements

\* the row a poll read is a complete task
SeenComplete ==
  /\ IsSome(proc.waiter.seen)
  /\ Unwrap(proc.waiter.seen).current = Unwrap(proc.waiter.seen).total
  /\ Unwrap(proc.waiter.seen).total > 0

\* the task waited for is complete
NowComplete ==
  \E i \in DOMAIN progress :
    /\ progress[i].task_id = proc.waiter.task
    /\ progress[i].current = progress[i].total
    /\ progress[i].total > 0

\* C24: a poll of wait_for_completion that finds the task complete returns
\* true at once; true is returned only for a task a poll found complete,
\* false only when the timeout has elapsed and the last poll found the task
\* incomplete; and the call returns
C24_WaitReturns ==
  /\ [][(proc.waiter.pc = "poll" /\ proc'.waiter # proc.waiter /\ NowComplete)
          => proc'.waiter.pc = "returned" /\ proc'.waiter.result = "true"]_vars
  /\ [](proc.waiter.result = "true" => SeenComplete)
  /\ [](proc.waiter.result = "false"
          => /\ ~SeenComplete
             /\ proc.now - proc.waiter.start >= proc.waiter.timeout)
  /\ <>(proc.waiter.pc = "returned")

\* C24 witness: the wait returned true after it had slept, the task having
\* been incremented to completion by another caller meanwhile
C24_Witness ==
  /\ proc.waiter.result = "true"
  /\ proc.waiter.wake > 0
  /\ proc.now < proc.waiter.timeout

(***************************************************************************)
(* Properties of the load specification                                    *)
(***************************************************************************)
\* the entries of a bucket that were opened from db/<name>
LoadedFrom(bucket, name) ==
  {i \in 1..Len(registry[bucket]) : registry[bucket][i].origin = name}

\* C25: the load succeeds, and leaves each directory that holds a
\* dictionary of a type once in the bucket of that type, and every other
\* entry of the root in no bucket
C25_LoadSkipsAndSucceeds ==
  proc.pc = "returned" =>
    /\ proc.result = "Ok"
    /\ \A i \in 1..Len(LoadNames) : \A bucket \in Buckets :
         Cardinality(LoadedFrom(bucket, LoadNames[i])) =
           IF IsSome(KindType(proc.kinds[i]))
              /\ bucket = BucketOf(Unwrap(KindType(proc.kinds[i])))
             THEN 1 ELSE 0

\* C36: when a subdirectory of the root has no index.json (and every other
\* entry is a file or a directory that opens and classifies without a
\* panic), the load still returns Ok and every directory that holds a
\* dictionary of a type is in the bucket of that type
C36_LoadToleratesMissingIndex ==
  (/\ proc.pc = "returned"
   /\ \E i \in 1..Len(LoadNames) : proc.kinds[i] = "no_index"
   /\ \A i \in 1..Len(LoadNames) : proc.kinds[i] # "empty_row")
  => /\ proc.result = "Ok"
     /\ \A i \in 1..Len(LoadNames) :
          IsSome(KindType(proc.kinds[i]))
            => LoadedFrom(BucketOf(Unwrap(KindType(proc.kinds[i]))), LoadNames[i]) # {}

(***************************************************************************)
(* Properties of the token specification                                   *)
(***************************************************************************)
\* analyze_tokens has returned a list
Analyzed ==
  unit.pc = "returned" /\ IsSome(unit.result) /\ Unwrap(unit.result).tag = "Ok"

Candidates == Unwrap(unit.result).val

\* C26: the list analyze_tokens returns is in non-increasing order of
\* surface-form length, in bytes and in characters; the token at the
\* position comes last and every compound built from it is longer
C26_LongestFirst ==
  Analyzed =>
    /\ \A i, j \in 1..Len(Candidates) :
         i < j => /\ surface_len(Candidates[i]) >= surface_len(Candidates[j])
                  /\ Len(Unwrap(Candidates[i].surface_form))
                       >= Len(Unwrap(Candidates[j].surface_form))
    /\ \A k \in 1..Len(unit.tokens) :
         (start_char(unit.tokens, k) <= unit.position
          /\ unit.position < start_char(unit.tokens, k + 1))
         => /\ Len(Candidates) >= 1
            /\ Candidates[Len(Candidates)].surface_form = Some(unit.tokens[k].surface)
            /\ \A i \in 1..(Len(Candidates) - 1) :
                 surface_len(Candidates[i]) > str_len(unit.tokens[k].surface)

\* C26 witness: a noun followed by two nouns: two compounds and the noun,
\* the longer compound first
C26_Witness ==
  /\ Analyzed
  /\ Len(Candidates) = 3
  /\ surface_len(Candidates[1]) > surface_len(Candidates[2])
  /\ surface_len(Candidates[2]) > surface_len(Candidates[3])

\* the token whose range of characters holds the position
AtPosition(k) ==
  /\ start_char(unit.tokens, k) <= unit.position
  /\ unit.position < start_char(unit.tokens, k + 1)

IsNoun(k) == Len(unit.tokens[k].fields) >= 1 /\ unit.tokens[k].fields[1] = POS_noun

\* the number of consecutive noun tokens after token k
NounsAfter(k) ==
  Cardinality({n \in 1..(Len(unit.tokens) - k) : \A m \in 1..n : IsNoun(k + m)})

\* the surfaces of the tokens k..k+i, concatenated
RECURSIVE SurfacesFrom(_, _)
SurfacesFrom(k, i) ==
  IF i = 0 THEN unit.tokens[k].surface
  ELSE SurfacesFrom(k, i - 1) \o unit.tokens[k + i].surface

Occurrences(x) == Cardinality({n \in 1..Len(Candidates) : Candidates[n] = x})

\* C31: when the token at the position is a noun followed by k nouns and
\* then a token that is no noun or the end of the text, the list holds the
\* token's own TokenFeature once and k compounds, the i-th with surface
\* form and dictionary form both the token's surface followed by the
\* surfaces of the next i nouns, and nothing else
C31_NounCompounds ==
  Analyzed =>
    \A k \in 1..Len(unit.tokens) :
      (AtPosition(k) /\ IsNoun(k)) =>
        LET base == from_feature_string(unit.tokens[k].surface,
                                        unit.tokens[k].fields).val
            compound(i) == [base EXCEPT !.surface_form = Some(SurfacesFrom(k, i)),
                                        !.dictionary_form = Some(SurfacesFrom(k, i))] IN
        /\ Len(Candidates) = NounsAfter(k) + 1
        /\ Occurrences(base) = 1
        /\ \A i \in 1..NounsAfter(k) : Occurrences(compound(i)) = 1

\* C31 witness: the position is in a noun that is followed by one noun and
\* then by a token that is no noun: one compound and the noun itself
C31_Witness ==
  /\ Analyzed
  /\ Len(unit.tokens) = 3
  /\ AtPosition(1) /\ IsNoun(1) /\ IsNoun(2) /\ ~IsNoun(3)
  /\ Len(Candidates) = 2
  /\ Candidates[1].surface_form
       = Some(unit.tokens[1].surface \o unit.tokens[2].surface)
  /\ Candidates[1].dictionary_form = Candidates[1].surface_form
  /\ Candidates[2].surface_form = Some(unit.tokens[1].surface)

(***************************************************************************)
(* Properties of the codec specification                                   *)
(***************************************************************************)
TermDecoded ==
  unit.schema = "term_bank" /\ unit.pc # "input" /\ Len(unit.json.items) = 8

TagsIn == unit.json.items[3]
TermTagsIn == unit.json.items[8]
DecodedEntry == Unwrap(unit.decoded).val

RECURSIVE Concat(_)
Concat(t) == IF t = <<>> THEN <<>> ELSE Head(t) \o Concat(Tail(t))

NotSpace(c) == ~is_whitespace(c)

\* t is the list of the maximal whitespace-free runs of s, in order
IsTokenList(t, s) ==
  /\ \A i \in 1..Len(t) : t[i] # <<>> /\ \A k \in 1..Len(t[i]) : NotSpace(t[i][k])
  /\ Concat(t) = SelectSeq(s, NotSpace)
  /\ Len(t) = Cardinality({i \in 1..Len(s) :
                             NotSpace(s[i]) /\ (i = 1 \/ is_whitespace(s[i - 1]))})

TagsAsClaimed(json, o) ==
  IF json.type = "null" \/ json.str = <<>>
  THEN o = None
  ELSE IsSome(o) /\ IsTokenList(Unwrap(o), json.str)

\* C27: a term entry whose tags and termTags fields are null or strings
\* decodes, and each of the two fields decodes by itself: null and "" to
\* None, any other string to the list of its whitespace-separated tokens in
\* order ("n abbr" to ["n","abbr"], "E1 P" to ["E1","P"])
C27_TagsDecoding ==
  (TermDecoded /\ TagsIn.type \in {"null", "string"}
               /\ TermTagsIn.type \in {"null", "string"}) =>
    /\ Unwrap(unit.decoded).tag = "Ok"
    /\ TagsAsClaimed(TagsIn, DecodedEntry.tags)
    /\ TagsAsClaimed(TermTagsIn, DecodedEntry.term_tags)
    /\ \A s \in {<<S_n, S_abbr>>, <<S_E1, S_P>>} :
         /\ TagsIn = JStr(s[1] \o <<32>> \o s[2]) => DecodedEntry.tags = Some(s)
         /\ TermTagsIn = JStr(s[1] \o <<32>> \o s[2]) => DecodedEntry.term_tags = Some(s)

\* an entry with tags "n abbr" and termTags "" has been decoded: two tags
\* on one side, None on the other
C27_Witness ==
  /\ TermDecoded
  /\ TagsIn = JStr(S_n \o <<32>> \o S_abbr)
  /\ TermTagsIn = JStr(<<>>)
  /\ Unwrap(unit.decoded).tag = "Ok"
  /\ DecodedEntry.tags = Some(<<S_n, S_abbr>>)
  /\ DecodedEntry.term_tags = None

\* JSON values that differ only in the order of the members of an object
RECURSIVE SemanticallyEqual(_, _)
SemanticallyEqual(a, b) ==
  /\ a.type = b.type
  /\ a.str = b.str
  /\ a.num = b.num
  /\ Len(a.items) = Len(b.items)
  /\ IF a.type = "object"
     THEN /\ {a.keys[i] : i \in 1..Len(a.keys)} = {b.keys[i] : i \in 1..Len(b.keys)}
          /\ \A i \in 1..Len(a.keys) :
               SemanticallyEqual(a.items[i], Unwrap(member(b, a.keys[i])))
     ELSE \A i \in 1..Len(a.items) : SemanticallyEqual(a.items[i], b.items[i])

\* C28: an entry that decodes is encoded to JSON semantically equal to the
\* positional array it was decoded from
C28_RoundTrip ==
  unit.pc = "encoded" => SemanticallyEqual(Unwrap(unit.encoded), unit.json)

(***************************************************************************)
(* Properties of the asset specification                                   *)
(***************************************************************************)
StaticDirEntry == created_file(dict_static_dir)

IsInside(file, dir) ==
  Len(file) > Len(dir) /\ SubSeq(file, 1, Len(dir)) = dir

\* C34: every file that copy_static_assets writes for an archive lies inside
\* static/<normalized filename>/, whatever names the entries of the archive
\* have ('..' components, backslash separators, absolute names).
C34_AssetsInsideStaticDir ==
  \A file \in unit.written : IsInside(file, StaticDirEntry)

(***************************************************************************)
(* Properties of the lock specification                                    *)
(***************************************************************************)
\* C40: under every interleaving of lookups, the scan with its
\* registrations and listing, and reads of the progress table, every
\* lookup that has asked for the registry finishes, and every clear and
\* register call that waits for the write lock is carried out
C40_NoDeadlock ==
  /\ \A l \in LockLookups : (look[l].pc # "idle") ~> (look[l].pc = "done")
  /\ \A i \in 1..Len(LockDirs) :
       (scan.pc = "register" /\ scan.i = i) ~> (scan.pc # "register" /\ scan.i > i)
  /\ (scan.pc # "idle") ~> (scan.pc = "done")

\* a lookup holds the read lock and its task holds a store's mutex, the
\* scan waits for the write lock to register, the other lookup waits
\* behind it, and the progress table's mutex is held by a reader
C40_Witness ==
  /\ \E l \in LockLookups : \E d \in DOMAIN look[l].tasks :
       look[l].tasks[d] = "locked"
  /\ scan.pc = "register"
  /\ Len(lock.queue) = 2
  /\ Head(lock.queue).mode = "write"
  /\ unit.progress = Some(LockReader)

====
